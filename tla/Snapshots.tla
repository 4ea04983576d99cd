----------------------------- MODULE Snapshots -----------------------------
(***************************************************************************)
(* The data that DataStore holds and the requests its methods serve, as    *)
(* far as the properties of the store tell them apart.                     *)
(*                                                                         *)
(* A cell is one of the four data members.  Its content is a function from *)
(* Keys: a key is a field of a struct (Uptime, MemSnapshot), or the key of *)
(* a map entry (CpuSnapshot by id, ProcSnapshot by pid).  None is the      *)
(* value of a key that the map does not hold.                              *)
(***************************************************************************)
CONSTANTS
    Writers,      \* threads that call setters: in this program the monitor's
    Readers,      \* threads that only call getters: one per TCP session
    StructCells,  \* m_uptime, m_mem_snapshot
    MapCells,     \* m_cpu_snapshots, m_proc_snapshots
    Keys,         \* fields of a struct cell, keys of a map cell
    Values,       \* what a field or an entry may hold
    Zero,         \* the default member initialisers {0u}
    None          \* no entry; no holder

ASSUME StoreAssumption ==
    /\ StructCells \cap MapCells = {}
    /\ Zero \in Values
    /\ None \notin Values
    /\ None \notin Writers \cup Readers

Threads == Writers \cup Readers
Cells == StructCells \cup MapCells

(* A struct always has all its fields, a map may lack some keys.           *)
Content(c) == IF c \in StructCells THEN [Keys -> Values]
                                   ELSE [Keys -> Values \cup {None}]
AnyContent == [Keys -> Values \cup {None}]
NoEntries == [k \in Keys |-> None]

(* The part of a content that a getter asks for: everything, or one key of *)
(* a map.                                                                  *)
View(content, want) == [k \in Keys |-> IF k \in want THEN content[k] ELSE None]

Wants(c) == IF c \in StructCells THEN {Keys} ELSE {Keys} \cup {{k} : k \in Keys}

(* A setter is given a whole content for its member.                       *)
Calls == {req \in [op : {"store", "get"}, cell : Cells, arg : AnyContent, want : SUBSET Keys] :
             req.op = "store" => req.arg \in Content(req.cell)}

StoreCall(c, content) == [op |-> "store", cell |-> c, arg |-> content, want |-> {}]
GetCall(c, want) == [op |-> "get", cell |-> c, arg |-> NoEntries, want |-> want]

(* DataStore() = default: zeroed structs and empty maps.                   *)
InitialContent == [c \in Cells |-> IF c \in StructCells THEN [k \in Keys |-> Zero]
                                                        ELSE NoEntries]
=============================================================================
