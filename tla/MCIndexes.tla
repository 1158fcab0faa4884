----------------------------- MODULE MCIndexes ------------------------------
(* The two kinds of index for model checking, the B+tree and the           *)
(* cartridges; they share no state: a behaviour is one of one of them.     *)
EXTENDS MCBTree, Cartridges

VARIABLE focus

indexVars == <<focus, vars, cartVars>>

MCItem(i, k) == [id |-> i, keys |-> k]
MCRel(a, b, c) ==
  MCItem(<<a, b>>, [from |-> <<a>>, to |-> <<b>>, type |-> <<"calls">>, commit |-> <<c>>])
MCPool == [
  entity |->
    {MCItem("i", [type |-> <<"file">>, name |-> <<"m">>, commit |-> <<"c1">>]),
     MCItem("i", [type |-> <<"config">>, name |-> <<"n">>, commit |-> <<"c1">>]),
     MCItem("j", [type |-> <<"file">>, name |-> <<"n">>, commit |-> <<"c1">>])},
  relationship |->
    {MCRel("a", "b", "c1"), MCRel("b", "c", "c1"), MCRel("a", "c", "c2")},
  topic |->
    {MCItem("i", [category |-> <<"arch">>, keyword |-> <<"API", "api">>, commit |-> <<"c1">>]),
     MCItem("i", [category |-> <<"perf">>, keyword |-> <<"db">>, commit |-> <<"c2">>])}]
MCLower == "API" :> "api" @@ "api" :> "api" @@ "db" :> "db"
MCSymmetry == ValueSymmetry \cup Permutations(CartTask)

IndexInit ==
  /\ focus \in {"tree", "cartridges"}
  /\ Init /\ CartInit
  /\ focus # "cartridges" => cartridge = "topic"

IndexNext ==
  /\ UNCHANGED focus
  /\ \/ focus = "tree" /\ Next /\ UNCHANGED cartVars
     \/ focus = "cartridges" /\ CartNext /\ UNCHANGED vars

IndexSpec == IndexInit /\ [][IndexNext]_indexVars

(* Types. *)
IndexesTypeOK == TypeOK /\ CartTypeOK
=============================================================================
