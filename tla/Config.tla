------------------------------- MODULE Config -------------------------------
(***************************************************************************)
(* config::Manager and TomlFile (src/src/roq/core/config): the parameters  *)
(* of the configuration file, and the list of parameters kept afterwards.  *)
(* A [[parameter]] table names one label and one strategy, and any number  *)
(* of accounts, symbols and values.  A node of the file is missing, a      *)
(* single value or an array.                                               *)
(***************************************************************************)
EXTENDS Integers, Tables, SequencesExt

CONSTANTS
    File,                \* the tables of the file
    UseTomlParameters,   \* Flags::use_toml_parameters
    Number               \* the strings that are numbers, with the number

ASSUME ConfigAssumption ==
    /\ UseTomlParameters \in BOOLEAN
    /\ \A text \in DOMAIN Number : Number[text] \in Nat

(* The tables of the file and the arrays of a table are sequences.         *)
ASSUME FileAssumption ==
    /\ \A table \in {File.market, File.account, File.parameter} : IsSequence(table)
    /\ \A i \in DOMAIN File.market : IsSequence(File.market[i].symbols)
    /\ \A i \in DOMAIN File.parameter :
         LET node == File.parameter[i]
         IN  \A of \in {node.account, node.symbol, node.value} :
                IsSequence(of.values) /\ (of.is = "missing" => of.values = <<>>)

VARIABLE parameters      \* config.parameters

Missing == [is |-> "missing", values |-> <<>>]
Scalar(value) == [is |-> "value", values |-> <<value>>]
Array(values) == [is |-> "array", values |-> values]

get_values(node) == node.values

(* Mutant: the last of the values is left out.                             *)
PairsWithoutLast(keys, values) ==
    [i \in DOMAIN keys.values |->
        <<keys.values[i], values.values[IF i < Len(values.values) THEN i ELSE 1]>>]

(* Every key with the value at its place, or with the last value when      *)
(* there are fewer; without keys the value goes with the empty one.        *)
get_pairs(keys, values) ==
    IF keys.is = "missing" /\ values.is # "missing"
    THEN <<<<"", values.values[1]>>>>
    ELSE LET count == Len(values.values)
         IN  [i \in IF count = 0 THEN {} ELSE DOMAIN keys.values |->
                <<keys.values[i], values.values[IF i < count THEN i ELSE count]>>]

(* get_value() throws when it meets an array.                              *)
PairsThrow(keys, values) == values.is = "array" /\ keys.is # "array"

(* parse_uint32() throws unless the string is a number.                    *)
LoadThrows ==
    /\ UseTomlParameters
    /\ \E i \in DOMAIN File.parameter :
         LET node == File.parameter[i]
         IN  \/ node.strategy \notin DOMAIN Number
             \/ PairsThrow(node.symbol, node.value)

Accounts(node) ==
    IF get_values(node.account) = <<>> THEN <<"">> ELSE get_values(node.account)

AddAllSymbols(node, account) ==
    LET pairs == get_pairs(node.symbol, node.value)
    IN  [i \in DOMAIN pairs |->
            [label |-> node.label, exchange |-> node.exchange, account |-> account,
             strategy_id |-> Number[node.strategy],
             symbol |-> pairs[i][1], value |-> pairs[i][2]]]

(* load(): the parameters of the file in the order of its tables.          *)
Loaded ==
    IF ~UseTomlParameters THEN <<>>
    ELSE FoldLeft(LAMBDA acc, node :
            FoldLeft(LAMBDA sum, account : sum \o AddAllSymbols(node, account),
                     acc, Accounts(node)),
            <<>>, File.parameter)

Key(p) == <<p.exchange, p.symbol>>

(* Query::operator(): an empty field of the query fits everything.         *)
Fits(query, p) ==
    /\ p.label = query.label
    /\ query.account \in {"", p.account}
    /\ query.symbol \in {"", p.symbol}
    /\ query.exchange \in {"", p.exchange}
    /\ query.strategy_id \in {0, p.strategy_id}

(* The parameters a later update fits are replaced by it, all of them.     *)
Updated(ps, u) ==
    IF \E i \in DOMAIN ps : Fits(u, ps[i])
    THEN [i \in DOMAIN ps |-> IF Fits(u, ps[i]) THEN u ELSE ps[i]]
    ELSE Append(ps, u)

ConfigHandles(update) == parameters' = FoldLeft(Updated, parameters, update)
=============================================================================
