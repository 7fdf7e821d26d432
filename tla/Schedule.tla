------------------------------ MODULE Schedule ------------------------------
(***************************************************************************)
(* Who produces the next block, and when the rules of the chain change      *)
(* (libraries/chain/database.cpp): the schedule of a round, virtual time,   *)
(* missed slots and shut-down witnesses, votes for hardforks.               *)
(*                                                                          *)
(* A block is one step of the model: it is signed by the witness whose slot *)
(* it is, carries at most one operation on a witness, and may end a round   *)
(* or apply hardforks.  Time is counted in slots; block numbers matter only *)
(* modulo the length of a round and as the time since a witness produced    *)
(* last.  The rules are those since hardfork 0.14.  Participation, reserve  *)
(* ratio, the medians of the properties and the majority version are        *)
(* computed along the way; nothing here reads them.                         *)
(***************************************************************************)
EXTENDS Integers, Sequences, FiniteSets, SequencesExt

CONSTANTS
    N,              \* accounts that may be witnesses: 1 .. N, in name order
    InitVotes,      \* votes of the witnesses there are at first, from 1 up
    MaxWitnesses,   \* STEEMIT_MAX_WITNESSES (21), also the blocks of a round
    MaxVoted,       \* STEEMIT_MAX_VOTED_WITNESSES (19)
    MaxMiners,      \* STEEMIT_MAX_MINER_WITNESSES (1)
    InitMiners,     \* witnesses left in the mining queue when mining ended
    Required,       \* STEEMIT_HARDFORK_REQUIRED_WITNESSES (17)
    BlocksPerDay,   \* STEEMIT_BLOCKS_PER_DAY
    NumHardforks,   \* hardforks the newest program knows
    TimeBits,       \* the width of virtual time (128)
    Votes,          \* numbers of votes a witness may get
    MaxMissed,      \* bound: slots missed in a row
    MaxOps,         \* bound: operations on witnesses
    MaxUpgrades     \* bound: programs installed

VARIABLES
    wit,        \* witness_object of every account
    wso,        \* witness_schedule_object, and the mining queue
    hf,         \* hardfork_property_object
    slot,       \* dynamic_global_property_object: current_aslot, block number
    world       \* programs of the witnesses, hardfork times that have passed

vars == <<wit, wso, hf, slot, world>>

Account == 1 .. N

\* VIRTUAL_SCHEDULE_LAP_LENGTH2, and the greatest virtual time.
MaxTime == 2 ^ TimeBits - 1

Wrap(t) == t % (MaxTime + 1)

\* The block number and the absolute slot matter modulo these.
SlotPeriod == LET product[n \in Nat] == IF n = 0 THEN 1 ELSE n * product[n - 1]
              IN  product[MaxWitnesses]

ASSUME ScheduleAssumption ==
    /\ InitVotes \in Seq(Nat) /\ Len(InitVotes) \in 1 .. N
    /\ MaxWitnesses >= MaxVoted + MaxMiners
    /\ MaxMissed >= MaxWitnesses - 1
    /\ \A v \in Votes : v < MaxTime

\* A handler is a function from states to states.
State == [wit |-> wit, wso |-> wso, hf |-> hf, slot |-> slot]

Becomes(after) ==
    \E s \in {after} : /\ wit' = s.wit
                       /\ wso' = s.wso
                       /\ hf' = s.hf
                       /\ slot' = s.slot

Known(s) == {w \in Account : s.wit[w].exists}

Keyed(s) == {w \in Known(s) : s.wit[w].key}

-----------------------------------------------------------------------------
(* Virtual time. *)

\* A witness as witness_update creates it.
NewWitness ==
    [ exists |-> FALSE, key |-> FALSE, votes |-> 0,
      last |-> 0,               \* virtual_last_update
      position |-> 0,           \* virtual_position
      scheduled |-> MaxTime,    \* virtual_scheduled_time
      idle |-> BlocksPerDay + 1,\* blocks since last_confirmed_block_num, capped
      vote |-> 0 ]              \* hardfork_version_vote

Lap(votes) == MaxTime \div (votes + 1)

\* Mutant: an overflow resets the current time only.
reset_time_only(wits) == wits

reset_virtual_schedule_time(wits) ==
    [w \in Account |->
        IF wits[w].exists
        THEN [wits[w] EXCEPT !.position = 0, !.last = 0,
                             !.scheduled = Lap(wits[w].votes)]
        ELSE wits[w]]

\* Mutant: a time that overflows is taken as it is.
adjust_witness_vote_wrapping(s, w, votes) ==
    LET c   == s.wit[w]
        pos == Wrap(c.position + c.votes * Wrap(s.wso.time - c.last))
    IN  [s EXCEPT !.wit[w] =
           [c EXCEPT !.position = pos, !.last = s.wso.time, !.votes = votes,
                     !.scheduled = Wrap(s.wso.time
                                        + Wrap(MaxTime - pos) \div (votes + 1))]]

adjust_witness_vote(s, w, votes) ==
    LET c    == s.wit[w]
        pos  == Wrap(c.position + c.votes * Wrap(s.wso.time - c.last))
        when == Wrap(s.wso.time + Wrap(MaxTime - pos) \div (votes + 1))
    IN  [s EXCEPT !.wit[w] =
           [c EXCEPT !.position = pos, !.last = s.wso.time, !.votes = votes,
                     !.scheduled = IF when < s.wso.time THEN MaxTime ELSE when]]

-----------------------------------------------------------------------------
(* update_witness_schedule4: the schedule of the next round. *)

\* The index by_vote_name, and the index by_schedule_time.
ByVoteName(s) ==
    SetToSortSeq(Known(s), LAMBDA v, w :
        \/ s.wit[v].votes > s.wit[w].votes
        \/ s.wit[v].votes = s.wit[w].votes /\ v < w)

ByScheduleTime(s) ==
    SetToSortSeq(Known(s), LAMBDA v, w :
        \/ s.wit[v].scheduled < s.wit[w].scheduled
        \/ s.wit[v].scheduled = s.wit[w].scheduled /\ v < w)

UpTo(seq, n) == SubSeq(seq, 1, IF Len(seq) < n THEN Len(seq) ELSE n)

SelectedVoted(s) ==
    UpTo(SelectSeq(ByVoteName(s), LAMBDA w : s.wit[w].key), MaxVoted)

\* Miners leave the queue as they are looked at, until one was selected.
SelectMiners(s, voted) ==
    LET look(r, w) ==
          IF Len(r.selected) >= MaxMiners THEN [r EXCEPT !.queue = Append(@, w)]
          ELSE IF w \notin Range(voted) /\ s.wit[w].key
          THEN [r EXCEPT !.selected = Append(@, w)] ELSE r
    IN  FoldLeft(look, [selected |-> <<>>, queue |-> <<>>], s.wso.miners)

\* Mutant: a witness may be selected a second time.
RunnersAgain(s, chosen) ==
    LET keyed == SelectSeq(ByScheduleTime(s), LAMBDA w : s.wit[w].key)
        picked == UpTo(keyed, MaxWitnesses - Cardinality(chosen))
    IN  [processed |-> picked, selected |-> picked]

\* The witnesses next in virtual time: the ones passed over to find enough of
\* them (processed), and those that are selected.
Runners(s, chosen) ==
    LET order == ByScheduleTime(s)
        fits(w) == s.wit[w].key /\ w \notin chosen
        need == MaxWitnesses - Cardinality(chosen)
        found(n) == Len(SelectSeq(SubSeq(order, 1, n), fits))
        enough == {n \in 0 .. Len(order) : found(n) >= need}
        processed == IF enough = {} THEN order ELSE SubSeq(order, 1, Min(enough))
    IN  [processed |-> processed, selected |-> SelectSeq(processed, fits)]

\* Everyone processed starts a new lap, unless virtual time overflows.
AdvanceVirtualTime(s, processed) ==
    LET now  == IF processed = <<>> THEN s.wso.time
                ELSE s.wit[Last(processed)].scheduled
        next(w) == Wrap(now + Lap(s.wit[w].votes))
        overflow == \E w \in Range(processed) : next(w) < now
    IN  IF overflow
        THEN [s EXCEPT !.wit = reset_virtual_schedule_time(@), !.wso.time = 0]
        ELSE [s EXCEPT !.wso.time = now,
                       !.wit = [w \in Account |->
                          IF w \in Range(processed)
                          THEN [s.wit[w] EXCEPT !.position = 0, !.last = now,
                                                !.scheduled = next(w)]
                          ELSE s.wit[w]]]

\* Mutant: one vote less is enough.
NextHardforkEarly(s) ==
    LET voters(v) == {i \in DOMAIN s.wso.order : s.wit[s.wso.order[i]].vote = v}
        agreed == {v \in 1 .. NumHardforks : Cardinality(voters(v)) >= Required - 1}
    IN  IF agreed = {} THEN s.hf.last ELSE Min(agreed)

\* The votes for a hardfork are those of the round that ends.
NextHardfork(s) ==
    LET voters(v) == {i \in DOMAIN s.wso.order : s.wit[s.wso.order[i]].vote = v}
        agreed == {v \in 0 .. NumHardforks : Cardinality(voters(v)) >= Required}
    IN  IF agreed = {} THEN s.hf.last ELSE Min(agreed)

Expected(s) == Min({MaxWitnesses, Cardinality(Known(s))})

\* All states a new round can begin in: the shuffle depends on the time of the
\* block.  There is none when the assertion on their number fails.
update_witness_schedule(s) ==
    LET voted   == SelectedVoted(s)
        mined   == SelectMiners(s, voted)
        chosen  == Range(voted) \cup Range(mined.selected)
        runners == Runners(s, chosen)
        active  == voted \o mined.selected \o runners.selected
        counted == [s EXCEPT !.hf.next = NextHardfork(s), !.wso.miners = mined.queue]
        timed   == AdvanceVirtualTime(counted, runners.processed)
        swaps   == {f \in [DOMAIN active -> DOMAIN active] :
                       Cardinality(Range(f)) = Len(active)}
    IN  IF s.slot.block # 0 THEN {s}
        ELSE IF Len(active) # Expected(s) THEN {}
        ELSE {[timed EXCEPT !.wso.order = [i \in DOMAIN active |-> active[f[i]]]] :
                 f \in swaps}

-----------------------------------------------------------------------------
(* A block. *)

get_scheduled_witness(s, n) ==
    s.wso.order[((s.slot.aslot + n) % Len(s.wso.order)) + 1]

\* What _generate_block puts in the header: the program votes for the next
\* hardfork it knows, or takes back a vote for one it does not know.
HeaderVote(s, w) ==
    LET knows == world.program[w]
        vote  == s.wit[w].vote
    IN  IF s.hf.last < knows THEN s.hf.last + 1
        ELSE IF s.hf.last = knows /\ vote > knows THEN s.hf.last ELSE vote

process_header_extensions(s, w) == [s EXCEPT !.wit[w].vote = HeaderVote(s, w)]

\* witness_update, and a change of the votes by some account.
Apply(s, op) ==
    CASE op.type = "none" -> s
      [] op.type = "key" -> [s EXCEPT !.wit[op.w].exists = TRUE,
                                      !.wit[op.w].key = op.key]
      [] op.type = "votes" -> adjust_witness_vote(s, op.w, op.votes)

\* Whoever missed a slot and did not produce for a day is shut down.
update_global_dynamic_data(s, missed, producer) ==
    LET absent == {get_scheduled_witness(s, n) : n \in 1 .. missed} \ {producer}
    IN  [s EXCEPT !.slot.aslot = (@ + missed + 1) % SlotPeriod,
                  !.slot.block = (@ + 1) % MaxWitnesses,
                  !.wit = [w \in Account |->
                     [s.wit[w] EXCEPT
                        !.key = @ /\ ~(w \in absent /\ s.wit[w].idle > BlocksPerDay),
                        !.idle = IF @ > BlocksPerDay THEN @ ELSE @ + 1]]]

update_signing_witness(s, w) == [s EXCEPT !.wit[w].idle = 0]

\* Hardforks are applied one after the other while the next one is agreed on
\* and its time has come.
process_hardforks(s) ==
    IF s.hf.last < s.hf.next /\ s.hf.next <= world.due
    THEN [s EXCEPT !.hf.last = s.hf.next] ELSE s

\* A block that does not apply changes nothing.  `refused' records that the
\* assertion failed although there were enough witnesses with a key.
Refused(s) ==
    [State EXCEPT !.wso.refused = @ \/ Cardinality(Keyed(s)) >= Expected(s)]

\* The block after `missed' slots without one.
Block(missed, op) ==
    LET w == get_scheduled_witness(State, missed + 1)
        included == Apply(process_header_extensions(State, w), op)
        counted == update_signing_witness(
                     update_global_dynamic_data(included, missed, w), w)
        rounds == update_witness_schedule(counted)
    IN  /\ wit[w].key                           \* validate_signee
        /\ world.program[w] >= hf.last          \* running_version
        /\ IF rounds = {} THEN Becomes(Refused(counted))
           ELSE \E s \in rounds : Becomes(process_hardforks(s))

Ops ==
    {[type |-> "key", w |-> w, key |-> k] : w \in Account, k \in BOOLEAN}
    \cup {[type |-> "votes", w |-> w, votes |-> v] : w \in Known(State), v \in Votes}

EmptyBlock ==
    /\ \E missed \in 0 .. MaxMissed : Block(missed, [type |-> "none"])
    /\ UNCHANGED world

BlockWithOp ==
    /\ world.ops < MaxOps
    /\ \E missed \in 0 .. MaxMissed, op \in Ops : Block(missed, op)
    /\ world' = [world EXCEPT !.ops = @ + 1]

\* The owner of a witness installs a program that knows one more hardfork.
Upgrade(w) ==
    /\ world.program[w] < NumHardforks
    /\ world.upgrades < MaxUpgrades
    /\ world' = [world EXCEPT !.program[w] = @ + 1, !.upgrades = @ + 1]
    /\ UNCHANGED <<wit, wso, hf, slot>>

\* The time of the next hardfork comes.
HardforkDue ==
    /\ world.due < NumHardforks
    /\ world' = [world EXCEPT !.due = @ + 1]
    /\ UNCHANGED <<wit, wso, hf, slot>>

-----------------------------------------------------------------------------
\* As hardfork 0.4 leaves the witnesses: virtual time starts, and the round
\* belongs to the witnesses with the most votes.
InitWitness(w) ==
    IF w \in DOMAIN InitVotes
    THEN [NewWitness EXCEPT !.exists = TRUE, !.key = TRUE, !.idle = 0,
                            !.votes = InitVotes[w], !.scheduled = Lap(InitVotes[w])]
    ELSE NewWitness

Init ==
    /\ wit = [w \in Account |-> InitWitness(w)]
    /\ hf = [last |-> 0, next |-> 0]
    /\ slot = [aslot |-> 0, block |-> 0]
    /\ world = [program |-> [w \in Account |-> 0], due |-> 0,
                ops |-> 0, upgrades |-> 0]
    /\ wso = [ order |-> UpTo(SetToSortSeq(DOMAIN InitVotes, LAMBDA v, w :
                            \/ InitVotes[v] > InitVotes[w]
                            \/ InitVotes[v] = InitVotes[w] /\ v < w), MaxWitnesses),
               time |-> 0, miners |-> InitMiners, refused |-> FALSE ]

Next == EmptyBlock \/ BlockWithOp \/ HardforkDue \/ \E w \in Account : Upgrade(w)

Spec == Init /\ [][Next]_vars

BlockApplied == slot' # slot

-----------------------------------------------------------------------------
(* Properties. *)

\* The types of the variables.
TypeOK ==
    /\ \A w \in Account : /\ wit[w].votes \in Nat
                          /\ wit[w].last \in 0 .. MaxTime
                          /\ wit[w].position \in 0 .. MaxTime
                          /\ wit[w].scheduled \in 0 .. MaxTime
                          /\ wit[w].idle \in 0 .. (BlocksPerDay + 1)
                          /\ wit[w].vote \in 0 .. NumHardforks
    /\ wso.order \in Seq(Account) /\ wso.order # <<>>
    /\ hf.last \in 0 .. NumHardforks

(***************************************************************************)
(* The three ways into the schedule (votes, mining, virtual time) together  *)
(* never give a witness two turns of a round, and with enough keys they     *)
(* fill it: then the assertion on the number of active witnesses never      *)
(* stops a block.                                                           *)
(***************************************************************************)
ScheduleSound ==
    /\ IsInjective(wso.order)
    /\ ~wso.refused

(***************************************************************************)
(* No witness is due in the virtual past and none has run more than a lap,  *)
(* whatever the order of votes, rounds and overflows: the subtractions of   *)
(* unsigned numbers in adjust_witness_vote never wrap.                      *)
(***************************************************************************)
NeverInPast ==
    \A w \in Known(State) :
        /\ wit[w].scheduled >= wso.time
        /\ wit[w].last <= wso.time
        /\ wit[w].position + wit[w].votes * (wso.time - wit[w].last) <= MaxTime

(***************************************************************************)
(* A witness that keeps a key and some votes is scheduled again and again,  *)
(* as long as blocks are produced: virtual time, its overflow and its reset *)
(* starve nobody ("everyone else takes turns").                             *)
(***************************************************************************)
AlwaysReturns ==
    \A w \in Account :
        (/\ <>[](wit[w].key /\ wit[w].votes > 0)
         /\ []<><<BlockApplied>>_vars)
            => []<>(w \in Range(wso.order))

(***************************************************************************)
(* A hardfork is applied only when its time has come and as many witnesses  *)
(* as required run a program that knows it: stale votes, changing schedules *)
(* and rounds without a majority do not apply one.                          *)
(***************************************************************************)
HardforkBacked ==
    /\ hf.last <= world.due
    /\ hf.last > 0 => Cardinality({w \in Account : world.program[w] >= hf.last})
                         >= Required
=============================================================================
