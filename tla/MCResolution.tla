---------------------------- MODULE MCResolution ----------------------------
(* A TypeScript file that uses save and store.save, a TypeScript and a     *)
(* Python file that define them; the Python file is the nearer one by far. *)
(* No class is called like the receiver _db, which has no capital.         *)
EXTENDS Resolution

CONSTANTS save, store, Store, _db

MCLang == <<"ts", "ts", "py">>
Near == <<"src", "app", "data", "sql", "store">>
MCDir == <<Near, <<"lib">>, Near>>
MCCapital == [n \in Names |-> IF n \in {save, _db} THEN n ELSE Store]
MCLower == [n \in Names |-> IF n = Store THEN store ELSE n]
MCWords == [n \in Names |-> {MCLower[n]}]

Call(n) == [recv |-> None, name |-> n, kind |-> "calls"]
Function(n) == [name |-> n, owner |-> None, kind |-> "function", exported |-> TRUE]
StoreClass == [name |-> Store, owner |-> None, kind |-> "class", exported |-> TRUE]
SaveMethod == [name |-> save, owner |-> Store, kind |-> "method", exported |-> FALSE]

MCChoices ==
  <<{[defs |-> {}, refs |-> <<Call(save), [Call(save) EXCEPT !.recv = store], Call(save)>>],
     [defs |-> {Function(save)}, refs |-> <<Call(store), [Call(save) EXCEPT !.recv = _db], Call(save)>>]},
    {[defs |-> {StoreClass, SaveMethod}, refs |-> <<>>],
     [defs |-> {Function(save)}, refs |-> <<Call(Store)>>]},
    {[defs |-> {StoreClass, SaveMethod}, refs |-> <<>>]}>>

\* One file that uses save and two files that define it, each with two contents.
MCSyncChoices ==
  <<{[defs |-> {}, refs |-> <<Call(save)>>]},
    {[defs |-> {Function(save)}, refs |-> <<>>], [defs |-> {Function(save)}, refs |-> <<Call(save)>>]},
    {[defs |-> {StoreClass, SaveMethod}, refs |-> <<>>]}>>

MCDispatch == {save}
=============================================================================
