------------------------------ MODULE ProcTree ------------------------------
(***************************************************************************)
(* TreeTable: the process tree that the page draws from the parent links   *)
(* of one scan.  They were read at different times, while processes ended, *)
(* handed their children to init and left their pids to others: the links  *)
(* that are stored need not be those of any tree that there ever was.      *)
(***************************************************************************)
EXTENDS ProcScan, SequencesExt

(* allProcs.filter: the children of a process.                             *)
WithParent(procs, ppid) == {p \in Pids : procs[p] # None /\ procs[p].ppid = ppid}

(* The children in their order, which is by pid, each followed by what is  *)
(* below it.                                                               *)
ListChildren(procs, parentPid, below) ==
    MapThenFoldSet(LAMBDA child, rows : <<child>> \o below[child] \o rows, <<>>,
                   LAMBDA child : child, Least, WithParent(procs, parentPid))

(* Mutant: only the children of a process are listed.                      *)
SortProcsFlat(procs, parentPid) == ListChildren(procs, parentPid, [p \in Pids |-> <<>>])

(* sortProcsDepthFirst.  A recursion that goes deeper than there are pids  *)
(* has come to a process that it is in already, and does not end: here it  *)
(* does, with that process in two rows.                                    *)
SortProcsDepthFirst(procs, parentPid) ==
    LET below[depth \in 0..Cardinality(Pids)] ==
            [p \in Pids |-> IF depth = 0 THEN <<>>
                            ELSE ListChildren(procs, p, below[depth - 1])]
    IN  below[Cardinality(Pids)][parentPid]

(* The first process without a parent, and its descendants.                *)
AllProcs(procs) ==
    LET rootProc == Least(WithParent(procs, 0))
    IN  <<rootProc>> \o SortProcsDepthFirst(procs, rootProc)

-----------------------------------------------------------------------------
(* The tree comes to an end, begins with pid 1, and has no row twice; each *)
(* row follows one of its parent.  If no process ended while /proc was     *)
(* read, everyone who ran all through the scan is in it, whatever others   *)
(* were started: "rows for child processes are grouped under the row of    *)
(* their parent process" (TreeTable.js:4).                                 *)
TreeIsDrawn ==
    [][StoreSnapshots =>
        LET rows == AllProcs(store') IN
        /\ rows[1] = 1 /\ IsInjective(rows)
        /\ \A i \in DOMAIN rows \ {1} : \E j \in 1..(i - 1) : rows[j] = store'[rows[i]].ppid
        /\ (\A l \in Lives : death[l] # poll) =>
              \A l \in Lives : ThroughoutPoll(l, poll) => Contains(rows, pidOf[l])]_vars
=============================================================================
