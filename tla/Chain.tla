------------------------------- MODULE Chain -------------------------------
(***************************************************************************)
(* Block processing of golos::chain::database (libraries/chain/             *)
(* database.cpp): pushing blocks, switching forks, popping blocks, the last *)
(* irreversible block, the block log and the restart of the node.           *)
(*                                                                          *)
(* The chain state kept in chainbase is a function of the blocks applied,   *)
(* so it is represented by the id of the head block.  The undo history is a *)
(* stack with one state for every block above the committed revision, so it *)
(* is represented by that revision.  push_block runs under the write lock;  *)
(* it is split at the iterations of its loops because the process may be    *)
(* killed between any two of them.                                          *)
(***************************************************************************)
EXTENDS ForkDatabase, Sequences

CONSTANTS
    lib,            \* last_irreversible_block_num once a block has been applied
    failAt,         \* where _apply_block throws on a block
    MaxUndoHistory, \* STEEMIT_MAX_UNDO_HISTORY
    Redelivery      \* whether a block the node already has is pushed again

(***************************************************************************)
(* "early": before update_last_irreversible_block (signature, schedule,     *)
(* transactions, ...).  "late": after it (process_hardforks on a hardfork   *)
(* this binary does not know, or an observer of applied_block).             *)
(***************************************************************************)
ASSUME FailAtAssumption == failAt \in [Block -> {"never", "early", "late"}]

(***************************************************************************)
(* update_last_irreversible_block never lowers the number, and a block is   *)
(* not irreversible when it is applied (that needs more than one scheduled  *)
(* witness; see LastIrreversible).                                          *)
(***************************************************************************)
ASSUME LibAssumption ==
    /\ lib \in [Id -> Nat]
    /\ lib[Genesis] = 0
    /\ \A b \in Block : lib[previous[b]] <= lib[b] /\ lib[b] < num[b]

ASSUME UndoAssumption == MaxUndoHistory \in Nat \ {0}

ASSUME RedeliveryAssumption == Redelivery \in BOOLEAN

VARIABLES
    head,       \* head_block_id()
    committed,  \* the revision the undo stack starts from
    log,        \* the block log: log[n] is its block of number n
    fdb,        \* _fork_db
    phase,      \* where _push_block stands: "idle" outside of it
    newTip,     \* during a switch, the tip of branches.first
    oldTip      \* during a switch, the tip of branches.second

vars == <<head, committed, log, fdb, phase, newTip, oldTip>>
switchVars == <<phase, newTip, oldTip>>

Phases == {"idle", "pop", "apply", "unwind", "restore"}

(***************************************************************************)
(* Blocks this node applies when they arrive on top of their chain.         *)
(***************************************************************************)
Applicable(b) == /\ failAt[b] = "never"
                 /\ num[b] - lib[previous[b]] < MaxUndoHistory

LogEndingIn(b) == [n \in 1..num[b] |-> AncestorAt(b, n)]

(***************************************************************************)
(* The state plugin_startup arrives at for a block log that ends in b: the  *)
(* log's last block is the head and the only item of the fork database, and *)
(* nothing can be undone.  With an empty log the node starts at genesis.    *)
(***************************************************************************)
OpenForkDb(b) == IF b = Genesis THEN EmptyForkDb ELSE StartBlock(EmptyForkDb, b)

Init == \E b \in Id :
          /\ \A a \in ancestors[b] \ {Genesis} : Applicable(a)
          /\ head = b
          /\ committed = num[b]
          /\ log = LogEndingIn(b)
          /\ fdb = OpenForkDb(b)
          /\ phase = "idle"
          /\ newTip = Genesis
          /\ oldTip = Genesis

fork == ForkPoint(newTip, oldTip)

\* The items owned by the branches _push_block holds during a switch.
held == IF phase = "idle" THEN {} ELSE Branch(fork, newTip) \cup Branch(fork, oldTip)
-----------------------------------------------------------------------------
(***************************************************************************)
(* _apply_block.                                                            *)
(***************************************************************************)
FailsEarly(b) ==
    \/ previous[b] # head                       \* validate_block_header
    \/ failAt[b] = "early"
    \/ num[b] - lib[head] >= MaxUndoHistory     \* update_global_dynamic_data

\* commit(lib) drops undo states and is not undone when the block fails later
Commit(b) == IF lib[b] > committed THEN lib[b] ELSE committed

\* How far the loop that appends to the block log gets before its assertion.
LogReach(f, b) ==
    IF lib[b] <= Len(log) THEN Len(log)
    ELSE CHOOSE n \in Len(log)..lib[b] :
           /\ \A i \in (Len(log) + 1)..n : MainBranchItem(f, i) # Genesis
           /\ n < lib[b] => MainBranchItem(f, n + 1) = Genesis

LogUpTo(f, n) ==
    [i \in 1..n |-> IF i <= Len(log) THEN log[i] ELSE MainBranchItem(f, i)]

(***************************************************************************)
(* What apply_block(b) leaves behind inside an undo session that is pushed  *)
(* on success and undone on failure.  The fork database, the undo history   *)
(* and the block log are outside the session.                               *)
(***************************************************************************)
Apply(f, b) ==
    IF FailsEarly(b)
      THEN [ok |-> FALSE, fdb |-> f, committed |-> committed, log |-> log]
      ELSE LET n      == LogReach(f, b)
               logged == n >= lib[b]
           IN  [ok        |-> logged /\ failAt[b] # "late",
                fdb       |-> IF logged
                                THEN SetMaxSize(f, num[b] - lib[b] + 1, held)
                                ELSE f,
                committed |-> Commit(b),
                log       |-> LogUpTo(f, n)]
-----------------------------------------------------------------------------
(***************************************************************************)
(* database::is_known_block: in the fork database or in the block log.      *)
(***************************************************************************)
IsKnownBlock(b) == \/ b \in fdb.index
                   \/ num[b] \in DOMAIN log /\ log[num[b]] = b

(***************************************************************************)
(* _push_block.  A block that is too old or unlinkable is refused by the    *)
(* fork database and changes nothing, so it is not a step.                  *)
(***************************************************************************)
Accepts(b) == /\ phase = "idle"
              /\ Redelivery \/ ~IsKnownBlock(b)
              /\ ~TooOld(fdb, b)
              /\ ~Unlinkable(fdb, b)

PushExtends(b) ==
    LET f == PushItem(fdb, b)
        r == Apply(f, b)
    IN  /\ Accepts(b)
        /\ previous[f.head] = head
        /\ head' = IF r.ok THEN b ELSE head
        /\ fdb' = IF r.ok THEN r.fdb ELSE Erase(r.fdb, {b}, {})
        /\ committed' = r.committed
        /\ log' = r.log
        /\ UNCHANGED switchVars

PushToFork(b) ==
    LET f == PushItem(fdb, b)
    IN  /\ Accepts(b)
        /\ previous[f.head] # head
        /\ num[f.head] <= num[head]
        /\ fdb' = f
        /\ UNCHANGED <<head, committed, log, switchVars>>

\* fetch_branch_from throws: the block stays in the fork database
PushUnfetchable(b) ==
    LET f == PushItem(fdb, b)
    IN  /\ Accepts(b)
        /\ previous[f.head] # head
        /\ num[f.head] > num[head]
        /\ ~CanFetchBranches(f, f.head, head)
        /\ fdb' = f
        /\ UNCHANGED <<head, committed, log, switchVars>>

PushSwitches(b) ==
    LET f == PushItem(fdb, b)
    IN  /\ Accepts(b)
        /\ previous[f.head] # head
        /\ num[f.head] > num[head]
        /\ CanFetchBranches(f, f.head, head)
        /\ fdb' = f
        /\ phase' = "pop"
        /\ newTip' = f.head
        /\ oldTip' = head
        /\ UNCHANGED <<head, committed, log>>

Leave(f) == /\ fdb' = Release(f)
            /\ phase' = "idle"
            /\ newTip' = Genesis
            /\ oldTip' = Genesis

(***************************************************************************)
(* database::pop_block.  fetch_block_by_id looks in the fork database and   *)
(* then in the block log; fork_database::pop_block asserts; undo() has no   *)
(* effect once the undo stack is empty.                                     *)
(***************************************************************************)
CanPopBlock == IsKnownBlock(head) /\ CanPop(fdb)

\* Mutant: a committed block can be undone.
UndoneHeadUnchecked == IF head # Genesis THEN previous[head] ELSE head

UndoneHead == IF num[head] > committed THEN previous[head] ELSE head

SwitchPop ==
    /\ phase \in {"pop", "unwind"}
    /\ CanPopBlock
    /\ head' = UndoneHead
    /\ fdb' = PopItem(fdb)
    /\ phase' = IF UndoneHead # fork THEN phase
                ELSE IF phase = "pop" THEN "apply" ELSE "restore"
    /\ UNCHANGED <<committed, log, newTip, oldTip>>

\* An exception of pop_block leaves _push_block with nothing put back.
SwitchPopThrows ==
    /\ phase \in {"pop", "unwind"}
    /\ ~CanPopBlock
    /\ Leave(fdb)
    /\ UNCHANGED <<head, committed, log>>

(***************************************************************************)
(* The next block to apply, of the new branch and then, once the new branch *)
(* has failed, of the old one.                                              *)
(***************************************************************************)
NextOf(tip) == AncestorAt(tip, num[head] + 1)

SwitchApply ==
    /\ phase = "apply"
    /\ \E r \in {Apply(fdb, NextOf(newTip))} :
         /\ r.ok
         /\ head' = NextOf(newTip)
         /\ committed' = r.committed
         /\ log' = r.log
         /\ IF NextOf(newTip) = newTip THEN Leave(r.fdb)
            ELSE fdb' = r.fdb /\ UNCHANGED switchVars

\* Mutant: the old branch is removed instead of the new one.
SwitchApplyFailsRemovesOld ==
    /\ phase = "apply"
    /\ \E r \in {Apply(fdb, NextOf(newTip))} :
         /\ ~r.ok
         /\ fdb' = SetHead(Erase(r.fdb, Branch(fork, oldTip), held), oldTip)
         /\ committed' = r.committed
         /\ log' = r.log
         /\ phase' = IF head = fork THEN "restore" ELSE "unwind"
         /\ UNCHANGED <<head, newTip, oldTip>>

\* Remove the rest of the new branch and go back to the old one.
SwitchApplyFails ==
    /\ phase = "apply"
    /\ \E r \in {Apply(fdb, NextOf(newTip))} :
         /\ ~r.ok
         /\ fdb' = SetHead(Erase(r.fdb, Branch(head, newTip), held), oldTip)
         /\ committed' = r.committed
         /\ log' = r.log
         /\ phase' = IF head = fork THEN "restore" ELSE "unwind"
         /\ UNCHANGED <<head, newTip, oldTip>>

\* Mutant: the loop over the old branch stops before its tip.
SwitchRestoreStopsEarly ==
    /\ phase = "restore"
    /\ \E r \in {Apply(fdb, NextOf(oldTip))} :
         /\ head' = IF r.ok THEN NextOf(oldTip) ELSE head
         /\ committed' = r.committed
         /\ log' = r.log
         /\ IF NextOf(oldTip) \in {oldTip, previous[oldTip]} \/ ~r.ok THEN Leave(r.fdb)
            ELSE fdb' = r.fdb /\ UNCHANGED switchVars

\* Apply the old branch again; an exception here leaves _push_block at once.
SwitchRestore ==
    /\ phase = "restore"
    /\ \E r \in {Apply(fdb, NextOf(oldTip))} :
         /\ head' = IF r.ok THEN NextOf(oldTip) ELSE head
         /\ committed' = r.committed
         /\ log' = r.log
         /\ IF NextOf(oldTip) = oldTip \/ ~r.ok THEN Leave(r.fdb)
            ELSE fdb' = r.fdb /\ UNCHANGED switchVars

PushBlock(b) == \/ PushExtends(b)
                \/ PushToFork(b)
                \/ PushUnfetchable(b)
                \/ PushSwitches(b)

SwitchStep == \/ SwitchPop
              \/ SwitchPopThrows
              \/ SwitchApply
              \/ SwitchApplyFails
              \/ SwitchRestore
-----------------------------------------------------------------------------
(***************************************************************************)
(* The process stops and starts again.  open() undoes every uncommitted     *)
(* block; when the block log does not end with the block it arrives at, the *)
(* chain plugin replays the log (or, when the log is empty, starts over).   *)
(* In every case the node ends at the last block of the log, which becomes  *)
(* the only item of a new fork database, with an empty undo stack.          *)
(***************************************************************************)
StartAt(l) ==
    LET b == IF l = <<>> THEN Genesis ELSE l[Len(l)]
    IN  /\ head' = b
        /\ committed' = num[b]
        /\ log' = l
        /\ fdb' = OpenForkDb(b)
        /\ phase' = "idle"
        /\ newTip' = Genesis
        /\ oldTip' = Genesis

\* Mutant: the last block of the log is dropped when it is opened.
RestartDropsLast == StartAt(SubSeq(log, 1, Len(log) - 1))

Restart == StartAt(log)

(***************************************************************************)
(* The process is killed while apply_block(b), called for a block that      *)
(* extends the chain or by a switch, is appending to the block log.         *)
(***************************************************************************)
KilledInApply(b) ==
    LET f == IF phase = "idle" THEN PushItem(fdb, b) ELSE fdb
    IN  /\ \/ Accepts(b) /\ previous[f.head] = head
           \/ phase = "apply" /\ b = NextOf(newTip)
           \/ phase = "restore" /\ b = NextOf(oldTip)
        /\ ~FailsEarly(b)
        /\ \E n \in Len(log)..LogReach(f, b) : StartAt(LogUpTo(f, n))

Next == \/ \E b \in Block : PushBlock(b)
        \/ SwitchStep
        \/ Restart
        \/ \E b \in Block : KilledInApply(b)

Spec == Init /\ [][Next]_vars

\* The thread that runs push_block goes on until push_block returns.
FairSpec == Spec /\ WF_vars(SwitchStep)
-----------------------------------------------------------------------------
TypeOK == /\ head \in Id
          /\ committed \in Nat
          /\ log \in Seq(Block)
          /\ fdb \in ForkDb
          /\ phase \in Phases
          /\ newTip \in Id
          /\ oldTip \in Id

(***************************************************************************)
(* The block log holds, at every number, the block of that number of the    *)
(* current chain, whatever forks were switched to, failed or were unwound:  *)
(* update_last_irreversible_block never appends a block of another branch.  *)
(***************************************************************************)
LogIsChainPrefix == \A n \in DOMAIN log : log[n] \in ancestors[head] /\ num[log[n]] = n

(***************************************************************************)
(* The undo history always reaches down from the head to the committed      *)
(* revision, and the block log never runs ahead of what is committed: the   *)
(* blocks open() can no longer undo include every block of the log.         *)
(***************************************************************************)
LogWithinCommitted == Len(log) <= committed /\ committed <= num[head]

(***************************************************************************)
(* A block that was committed is never replaced: after any step (a fork     *)
(* switch and its unwinding, a rejected block) the head still builds on it, *)
(* or the node has started again from the end of its block log, which is    *)
(* one of its ancestors.                                                    *)
(***************************************************************************)
Finality ==
    [][\E c \in ancestors[head] :
         /\ num[c] = committed
         /\ \/ c \in ancestors[head']
            \/ num[head'] = Len(log') /\ head' \in ancestors[c]]_vars

(***************************************************************************)
(* The block log is append-only: no switch, failure, kill or restart        *)
(* removes or replaces a block of it.                                       *)
(***************************************************************************)
LogAppendOnly == [][/\ Len(log) <= Len(log')
                    /\ \A n \in DOMAIN log : log'[n] = log[n]]_vars

(***************************************************************************)
(* A switch that failed and was unwound ends with the whole old branch      *)
(* applied again: nothing that applied once fails when _push_block restores *)
(* "all blocks from the good fork".                                         *)
(***************************************************************************)
RollbackRestores == [][SwitchRestore /\ phase' = "idle" => head' = oldTip]_vars

(***************************************************************************)
(* push_block returns: its pop loops end even when the undo history is      *)
(* exhausted before the fork point is reached.                              *)
(***************************************************************************)
SwitchEnds == phase # "idle" ~> phase = "idle"

(***************************************************************************)
(* "those blocks are invalid" (the comment above the removal of the rest of *)
(* the new branch): a switch is rolled back only when the new branch has a  *)
(* block that does not apply.                                               *)
(***************************************************************************)
RollsBackInvalidOnly ==
    [][phase = "apply" /\ phase' \in {"unwind", "restore"}
         => \E b \in Branch(fork, newTip) : ~Applicable(b)]_vars

=============================================================================
