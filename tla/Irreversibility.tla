--------------------------- MODULE Irreversibility ---------------------------
(***************************************************************************)
(* The part of _apply_block that makes blocks irreversible, round after     *)
(* round of the witness schedule, and the transit to CyberWay that depends  *)
(* on it (database.cpp, plugins/chain/plugin.cpp): once enough of the top   *)
(* voted witnesses ask for it, transactions stop, the node waits until the  *)
(* transit block is irreversible, goes back to exactly that block, writes   *)
(* the state out and exits.                                                 *)
(*                                                                          *)
(* chain[n] is the part of the chain state that matters here after block n; *)
(* undoing a block drops the last element, and what is not chain state (the *)
(* committed revision, the fixed limit, the timer) stays.  A fork switch    *)
(* undoes blocks and then applies more than it undid; it holds the write    *)
(* lock, so the timer does not fire in the middle of one.                   *)
(***************************************************************************)
EXTENDS LastIrreversible, Sequences

CONSTANTS
    Witness,        \* the witnesses
    MaxVoted,       \* STEEMIT_MAX_VOTED_WITNESSES
    Required,       \* STEEMIT_TRANSIT_REQUIRED_WITNESSES
    SerializeState, \* the option serialize-state is given
    NoLimit,        \* UINT32_MAX: no transit block, no fixed limit
    MaxBlockNum,    \* bound: blocks of the longest chain
    Voters          \* bound: witnesses that may change their transit vote

ASSUME WitnessAssumption == IsFiniteSet(Witness) /\ Cardinality(Witness) >= MaxWitnesses

ASSUME ScheduleAssumption ==
    /\ MaxWitnesses > 0
    /\ MaxVoted \in 1..MaxWitnesses
    /\ Required \in 1..MaxVoted
    /\ MaxBlockNum \in Nat
    /\ NoLimit \in Nat
    /\ NoLimit > MaxBlockNum
    /\ SerializeState \in BOOLEAN
    /\ Voters \subseteq Witness

(***************************************************************************)
(* "16 from top19 -> This guarantees 75% participation on all subsequent    *)
(* rounds" (config.hpp).                                                    *)
(***************************************************************************)
ASSUME ParticipationAssumption == Required * Hundred >= Threshold * MaxWitnesses

\* More than one witness has to confirm a block.
ASSUME QuorumAssumption == MaxWitnesses * Threshold > Hundred

VARIABLES
    chain,      \* chain[n]: the state after block n
    committed,  \* the revision the undo stack starts from
    fixed,      \* _fixed_irreversible_block_num
    undone,     \* during a fork switch, the number of the head before it
    timer,      \* transit_timer is running
    exited      \* the state has been written out and the process has ended

vars == <<chain, committed, fixed, undone, timer, exited>>

Schedules == {S \in SUBSET Witness : Cardinality(S) = MaxWitnesses}

ChainState ==
    [confirmed : [Witness -> Nat],  \* witness_object::last_confirmed_block_num
     schedule  : Schedules,         \* wso.current_shuffled_witnesses
     top       : SUBSET Witness,    \* scheduled witnesses with schedule == top19
     votes     : SUBSET Witness,    \* transit_to_cyberway_vote is set
     transit   : Nat,               \* transit_block_num
     lib       : Nat]               \* last_irreversible_block_num

headNum == Len(chain)
State == chain[headNum]

TransitEnabled(s) == s.transit # NoLimit

Rounds == {r \in [all : Schedules, top : SUBSET Witness] :
             r.top \subseteq r.all /\ Cardinality(r.top) = MaxVoted}

(***************************************************************************)
(* update_witness_schedule at the end of a round: the most voted witnesses  *)
(* and, for the rest of the round, others.  Once the transit is enabled no  *)
(* vote and no signing key changes any more, so the top stays as it is.     *)
(***************************************************************************)
NewRounds(s, n) ==
    IF n % MaxWitnesses # 0 THEN {[all |-> s.schedule, top |-> s.top]}
    ELSE {r \in Rounds : TransitEnabled(s) => r.top = s.top}

(***************************************************************************)
(* The transit votes after a block: each vote in it changes one ("You       *)
(* should change your vote"), and none does once blocks with transactions   *)
(* are rejected because the transit is enabled.                             *)
(***************************************************************************)
Voted(votes, X) == (votes \ X) \cup (X \ votes)

NewVotes(s) == IF TransitEnabled(s) THEN {s.votes} ELSE {Voted(s.votes, X) : X \in SUBSET Voters}

\* process_transit_to_cyberway, after the schedule has been updated
NewTransit(s, n, T, V) ==
    IF ~TransitEnabled(s) /\ Cardinality(T \cap V) >= Required THEN n ELSE s.transit

\* Mutant: the LIB update does not know of the transit block.
TransitLimitNone(s) == 0

\* The LIB update sees the transit block number of the previous block.
TransitLimit(s) == IF TransitEnabled(s) THEN s.transit ELSE 0

(***************************************************************************)
(* _apply_block for a block signed by w that leaves the transit votes V and *)
(* the round r.  The signal is handled by start_transit_to_cyberway, which  *)
(* fixes the limit and starts the timer.                                    *)
(***************************************************************************)
ApplyBlock(w, V, r) ==
    LET s == State
        n == headNum + 1
        c == [s.confirmed EXCEPT ![w] = n]
        l == NewLib(s.schedule, n, c, s.lib, fixed, TransitLimit(s))
        t == NewTransit(s, n, r.top, V)
        starts == t = l /\ SerializeState /\ fixed = NoLimit
    IN  /\ ~exited
        /\ headNum < MaxBlockNum
        /\ chain' = Append(chain, [confirmed |-> c, schedule |-> r.all, top |-> r.top,
                                   votes |-> V, transit |-> t, lib |-> l])
        /\ committed' = IF l > committed THEN l ELSE committed
        /\ fixed' = IF starts THEN l ELSE fixed
        /\ timer' = (starts \/ timer)
        /\ undone' = IF n > undone THEN 0 ELSE undone
        /\ UNCHANGED exited

\* A fork switch undoes the head block.
PopBlock ==
    /\ ~exited
    /\ headNum > committed
    /\ headNum > 1
    /\ chain' = SubSeq(chain, 1, headNum - 1)
    /\ undone' = IF undone = 0 THEN headNum ELSE undone
    /\ UNCHANGED <<committed, fixed, timer, exited>>

(***************************************************************************)
(* transit_to_cyberway, when the timer fires: pop blocks down to the last   *)
(* irreversible block, serialize the state, close the database, exit.       *)
(***************************************************************************)
CanRevert == State.lib >= committed /\ State.lib > 0

Serialize ==
    /\ timer
    /\ undone = 0
    /\ CanRevert
    /\ chain' = SubSeq(chain, 1, State.lib)
    /\ timer' = FALSE
    /\ exited' = TRUE
    /\ UNCHANGED <<committed, fixed, undone>>

\* pop_block throws once there is nothing left to undo.
SerializeThrows ==
    /\ timer
    /\ undone = 0
    /\ ~CanRevert
    /\ chain' = SubSeq(chain, 1, committed)
    /\ timer' = FALSE
    /\ UNCHANGED <<committed, fixed, undone, exited>>

\* The process ends without writing the state and is started again.
Restart ==
    /\ ~exited
    /\ committed > 0
    /\ chain' = SubSeq(chain, 1, committed)
    /\ fixed' = NoLimit
    /\ undone' = 0
    /\ timer' = FALSE
    /\ UNCHANGED <<committed, exited>>

Init ==
    /\ \E r \in Rounds : \E w \in r.all :
         chain = << [confirmed |-> [x \in Witness |-> IF x = w THEN 1 ELSE 0],
                     schedule |-> r.all, top |-> r.top, votes |-> {},
                     transit |-> NoLimit, lib |-> 0] >>
    /\ committed = 0
    /\ fixed = NoLimit
    /\ undone = 0
    /\ timer = FALSE
    /\ exited = FALSE

Next == \/ \E w \in State.schedule, V \in NewVotes(State), r \in NewRounds(State, headNum + 1) :
             ApplyBlock(w, V, r)
        \/ PopBlock
        \/ Serialize
        \/ SerializeThrows
        \/ Restart

Spec == Init /\ [][Next]_vars
-----------------------------------------------------------------------------
TypeOK ==
    /\ chain \in [1..Len(chain) -> ChainState]
    /\ Len(chain) > 0
    /\ committed \in Nat
    /\ fixed \in Nat
    /\ undone \in Nat
    /\ timer \in BOOLEAN
    /\ exited \in BOOLEAN

(***************************************************************************)
(* A block becomes irreversible by votes only when at least the threshold   *)
(* of the scheduled witnesses has signed it or a block above it, through    *)
(* every change of the schedule.                                            *)
(***************************************************************************)
IrreversibleIsConfirmed ==
    \A n \in 2..headNum :
      LET s == chain[n - 1]
          t == chain[n]
      IN  t.lib > s.lib /\ n >= StartMinerVotingBlock
            => Cardinality(AtLeast(s.schedule, t.confirmed, t.lib)) * Hundred
                 >= Threshold * MaxWitnesses

(***************************************************************************)
(* Along the chain the last irreversible block only rises, it stays below   *)
(* the head and nothing above it has been committed, however many blocks    *)
(* were undone and whatever was replayed after a restart.                   *)
(***************************************************************************)
LibRises ==
    /\ \A m, n \in 1..headNum : m <= n => chain[m].lib <= chain[n].lib
    /\ \A n \in 1..headNum : chain[n].lib < n
    /\ committed <= headNum

(***************************************************************************)
(* The number of the transit block is never jumped over: when it is         *)
(* irreversible, some block of the chain made exactly it the last           *)
(* irreversible block, which is when observers are told.                    *)
(***************************************************************************)
TransitNotSkipped ==
    TransitEnabled(State) /\ State.lib >= State.transit
      => \E n \in 1..headNum : chain[n].lib = State.transit /\ TransitEnabled(chain[n])

(***************************************************************************)
(* A node that writes its state out does so at the transit block and never  *)
(* lets a later block become irreversible, across forks and restarts.       *)
(***************************************************************************)
StopsAtTransit ==
    /\ exited => headNum = chain[headNum].transit
    /\ SerializeState /\ TransitEnabled(State) => committed <= State.transit

(***************************************************************************)
(* "revert to last LIB" (transit_to_cyberway): while the timer runs, the    *)
(* node can go back to its last irreversible block.                         *)
(***************************************************************************)
RevertsToLib == timer /\ undone = 0 => CanRevert
=============================================================================
