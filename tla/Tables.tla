------------------------------- MODULE Tables -------------------------------
(***************************************************************************)
(* The hash maps and the prefixed names that the parts of the core share.  *)
(* A map is a function whose domain is the set of its keys.  A string with *)
(* a separator is the sequence of its parts: "lqs:enabled" is              *)
(* <<"lqs", "enabled">>.  The empty string is "".                          *)
(***************************************************************************)
EXTENDS Naturals, Sequences

Put(table, key, value) ==
    [x \in DOMAIN table \cup {key} |-> IF x = key THEN value ELSE table[x]]

Get(table, key, default) == IF key \in DOMAIN table THEN table[key] ELSE default

TryEmplace(table, key, value) == Put(table, key, Get(table, key, value))

IsSequence(s) == s \in Seq({s[i] : i \in DOMAIN s})

(* split_prefix(s, ':'): what stands before the first separator, and the   *)
(* rest.                                                                   *)
Prefix(parts) == IF Len(parts) > 1 THEN parts[1] ELSE ""
Rest(parts) == IF Len(parts) > 1 THEN Tail(parts) ELSE parts
=============================================================================
