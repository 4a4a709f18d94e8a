-------------------------------- MODULE MCStore --------------------------------
(* Three requests over tables of two servers and four folders. *)
EXTENDS Store, TLC

CONSTANTS a, b

MCCreates ==
    {[name |-> a, secure |-> FALSE, secret |-> "blank", paths |-> <<>>],
     [name |-> b, secure |-> TRUE, secret |-> "blank", paths |-> <<"p">>],
     [name |-> b, secure |-> TRUE, secret |-> "token", paths |-> <<"p">>]}
MCPatches ==
    {[name |-> Keep, secure |-> TRUE, secret |-> Keep],
     [name |-> b, secure |-> Keep, secret |-> Keep],
     [name |-> Keep, secure |-> Keep, secret |-> None],
     [name |-> Keep, secure |-> TRUE, secret |-> "token"]}
MCSaves ==
    {[name |-> b, secret |-> Keep, paths |-> <<"p">>],
     [name |-> a, secret |-> "token", paths |-> <<>>]}

Folder(s, p) == [server |-> s, path |-> p]
Server1 == [name |-> a, secure |-> FALSE, secret |-> "token"]
Server2 == [name |-> b, secure |-> TRUE, secret |-> "token"]
MCTables ==
    {[servers |-> <<None, None>>, folders |-> <<None, None, None, None>>],
     [servers |-> <<Server1, None>>, folders |-> <<Folder(1, "p"), None, None, None>>],
     [servers |-> <<Server1, Server2>>,
      folders |-> <<Folder(1, "p"), Folder(2, "q"), None, None>>]}

Alike == Permutations(Request)
===============================================================================
