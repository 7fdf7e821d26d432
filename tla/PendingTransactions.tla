------------------------- MODULE PendingTransactions -------------------------
(***************************************************************************)
(* The pending transactions of database (libraries/chain/database.cpp,      *)
(* db_with.hpp): accepting a transaction, setting the pending ones aside    *)
(* while a block is pushed or a fork is switched to and putting them back   *)
(* together with those of the undone blocks, and generating a block         *)
(* (plugins/witness/witness.cpp).                                           *)
(*                                                                          *)
(* A chain state has the number and the time of the head block, the index   *)
(* of unique transactions (known), the effects of the operations (done: the *)
(* transactions whose effects it has) and the blocks a transaction can      *)
(* refer to (tags).                                                         *)
(***************************************************************************)
EXTENDS Naturals, Sequences, FiniteSets, FiniteSetsExt

CONSTANTS
    Tx,             \* the transactions
    expiration,     \* signed_transaction::expiration
    needs,          \* the transactions whose effects an evaluator requires
    rivals,         \* the transactions whose effects make an evaluator throw
    ref,            \* the block ref_block_num and ref_block_prefix name, as a set
    Tag,            \* what distinguishes the blocks a transaction can refer to
    MaxUntil,       \* STEEMIT_MAX_TIME_UNTIL_EXPIRATION
    MaxBlockTx,     \* the transactions that fit into a block
    WriteModes,     \* the values of the option single-write-thread to consider
    MaxTime,        \* bound: time of the last block
    MaxChecked,     \* bound: transactions between validation and push
    MaxUndone       \* bound: blocks undone by a fork switch

ASSUME TxAssumption == /\ expiration \in [Tx -> Nat]
                       /\ needs \in [Tx -> SUBSET Tx]
                       /\ rivals \in [Tx -> SUBSET Tx]
                       /\ ref \in [Tx -> SUBSET Tag]

ASSUME PoolBoundAssumption == /\ MaxUntil \in Nat /\ MaxBlockTx \in Nat
                              /\ MaxTime \in Nat /\ MaxUndone \in Nat /\ MaxChecked \in Nat
                              /\ WriteModes \subseteq BOOLEAN

VARIABLES
    chain,      \* the blocks, each with the state after it
    pending,    \* _pending_tx
    session,    \* _pending_tx_session is valid
    work,       \* the state the database shows: with the pending session, if any
    checked,    \* transactions validate_transaction has passed and not yet pushed
    gen,        \* where maybe_produce_block stands
    singleWrite \* the option single-write-thread, read at startup

vars == <<chain, pending, session, work, checked, gen, singleWrite>>

State == [num : Nat, time : Nat, known : SUBSET Tx, done : SUBSET Tx, tags : SUBSET Tag]

Genesis == [num |-> 0, time |-> 0, known |-> {}, done |-> {}, tags |-> {}]

Block == [txs : Seq(Tx), state : State]

StateAt(c) == IF c = <<>> THEN Genesis ELSE c[Len(c)].state

HeadState == StateAt(chain)

-----------------------------------------------------------------------------
(***************************************************************************)
(* _apply_transaction: the duplicate check, _validate_transaction (where    *)
(* `tapos' says whether skip_tapos_check is unset), the unique transaction  *)
(* object and the operations.                                               *)
(***************************************************************************)
InTime(s, t) == s.num > 0 => /\ expiration[t] <= s.time + MaxUntil
                             /\ s.time < expiration[t]

RefersToChain(s, t) == s.num > 0 => ref[t] \subseteq s.tags

Executes(s, t) == needs[t] \subseteq s.done /\ rivals[t] \cap s.done = {}

Applies(s, t, tapos) == /\ t \notin s.known
                        /\ InTime(s, t)
                        /\ tapos => RefersToChain(s, t)
                        /\ Executes(s, t)

With(s, T) == [s EXCEPT !.known = @ \cup T, !.done = @ \cup T]

First(txs, n) == {txs[i] : i \in 1..n}

\* The transactions of a block apply one after the other.
AllApply(s, txs) ==
    \A i \in 1..Len(txs) : Applies(With(s, First(txs, i - 1)), txs[i], TRUE)

(***************************************************************************)
(* Offer the transactions of a sequence one after the other and keep those  *)
(* that apply and have not expired at `when', up to `room' of them.         *)
(***************************************************************************)
Keep(s, kept, t, room, when) ==
    IF expiration[t] >= when /\ Len(kept) < room /\ Applies(With(s, Range(kept)), t, TRUE)
      THEN Append(kept, t)
      ELSE kept

Kept(s, txs, room, when) ==
    MapThenFoldSet(LAMBDA t, kept : Keep(s, kept, t, room, when), <<>>,
                   LAMBDA i : txs[i], LAMBDA I : Max(I), DOMAIN txs)

\* Mutant: a transaction is forgotten in the block in which it may still be pushed.
ClearExpiredEarly(known, now) == {t \in known : now + 1 < expiration[t]}

\* clear_expired_transactions
ClearExpired(known, now) == {t \in known : now <= expiration[t]}

\* The state after a block of the time `now' has been applied.
AfterBlock(s, now, txs, tag) ==
    [num   |-> s.num + 1,
     time  |-> now,
     known |-> ClearExpired(s.known \cup First(txs, Len(txs)), now),
     done  |-> s.done \cup First(txs, Len(txs)),
     tags  |-> s.tags \cup {tag}]

Extend(c, now, txs, tag) ==
    Append(c, [txs |-> txs, state |-> AfterBlock(StateAt(c), now, txs, tag)])

BlockApplies(c, now, txs) == /\ txs \in Seq(Tx)
                             /\ StateAt(c).time < now
                             /\ Len(txs) <= MaxBlockTx
                             /\ AllApply(StateAt(c), txs)
-----------------------------------------------------------------------------
\* With a single write thread nothing is written between the steps of generate_block.
MayWrite == singleWrite => gen.stage = "none"

(***************************************************************************)
(* accept_transaction of the chain plugin: validate_transaction in the      *)
(* calling thread under a read lock, then push_transaction, which skips     *)
(* what was validated.                                                      *)
(***************************************************************************)
ValidateTransaction(t) ==
    /\ t \notin checked
    /\ Cardinality(checked) < MaxChecked
    /\ InTime(work, t) /\ RefersToChain(work, t)
    /\ checked' = checked \cup {t}
    /\ UNCHANGED <<chain, pending, session, work, gen, singleWrite>>

\* Mutant: the transaction is queued before it is applied.
PushTransactionFirst(t) ==
    /\ MayWrite
    /\ t \in checked
    /\ checked' = checked \ {t}
    /\ session' = TRUE
    /\ pending' = Append(pending, t)
    /\ work' = IF Applies(work, t, FALSE) THEN With(work, {t}) ELSE work
    /\ UNCHANGED <<chain, gen, singleWrite>>

PushTransaction(t) ==
    /\ MayWrite
    /\ t \in checked
    /\ checked' = checked \ {t}
    /\ session' = TRUE
    /\ IF Applies(work, t, FALSE)
         THEN /\ pending' = Append(pending, t)
              /\ work' = With(work, {t})
         ELSE UNCHANGED <<pending, work>>
    /\ UNCHANGED <<chain, gen, singleWrite>>

(***************************************************************************)
(* The end of push_block: the destructor of pending_transactions_restorer   *)
(* offers the transactions of undone blocks and then the pending ones.      *)
(***************************************************************************)
\* Mutant: the pending transactions come first.
RestoredPendingFirst(popped) == pending \o popped

Restored(popped) == popped \o pending

Restore(c, popped) ==
    LET kept == Kept(StateAt(c), Restored(popped), Len(Restored(popped)), 0)
        tried == \E i \in 1..Len(Restored(popped)) : Restored(popped)[i] \notin StateAt(c).known
    IN  /\ chain' = c
        /\ pending' = kept
        /\ session' = tried
        /\ work' = With(StateAt(c), Range(kept))

\* Sequences of transactions another witness may put into a block.
Offered == UNION {[1..n -> Tx] : n \in 0..MaxBlockTx}

Times(c) == (StateAt(c).time + 1)..MaxTime

\* push_block of a block that extends the chain.
PushBlock ==
    /\ MayWrite
    /\ \E now \in Times(chain), txs \in Offered, tag \in Tag :
         /\ BlockApplies(chain, now, txs)
         /\ Restore(Extend(chain, now, txs, tag), <<>>)
    /\ UNCHANGED <<checked, gen, singleWrite>>

\* push_block of a block that does not apply, or that goes to a fork.
PushBlockNotApplied ==
    /\ MayWrite
    /\ Restore(chain, <<>>)
    /\ UNCHANGED <<checked, gen, singleWrite>>

Base(k) == SubSeq(chain, 1, Len(chain) - k)

\* One sequence after the other.
Joined(seqs) ==
    LET joined[n \in 0..Len(seqs)] == IF n = 0 THEN <<>> ELSE joined[n - 1] \o seqs[n]
    IN  joined[Len(seqs)]

\* _popped_tx: pop_block inserts the transactions of each undone block in front.
Popped(k) == Joined([n \in 1..k |-> chain[Len(chain) - k + n].txs])

(***************************************************************************)
(* The blocks of another branch, built on the chain c: chains that have n   *)
(* more blocks than c.  Only the first has transactions, the others follow  *)
(* it at once.                                                              *)
(***************************************************************************)
EmptyBlocks(c, n, tag) ==
    c \o [i \in 1..n |-> LET s   == StateAt(c)
                             now == s.time + i
                         IN  [txs   |-> <<>>,
                              state |-> [num   |-> s.num + i,
                                         time  |-> now,
                                         known |-> ClearExpired(s.known, now),
                                         done  |-> s.done,
                                         tags  |-> s.tags \cup {tag}]]]

Branches(c, n) ==
    UNION {{EmptyBlocks(Extend(c, now, txs, tag), n - 1, tag) :
              txs \in {x \in Offered : BlockApplies(c, now, x)}, tag \in Tag} :
           now \in {StateAt(c).time + 1, StateAt(c).time + 2}}

\* _push_block switches to a branch that forks k blocks below the head.
SwitchFork ==
    /\ MayWrite
    /\ \E k \in 1..MaxUndone :
         /\ k <= Len(chain)
         /\ \E c \in Branches(Base(k), k + 1) :
              /\ StateAt(c).time <= MaxTime
              /\ Restore(c, Popped(k))
    /\ UNCHANGED <<checked, gen, singleWrite>>

(***************************************************************************)
(* A switch that fails after n blocks of the new branch: these are undone   *)
(* too, so their transactions come before those of the old branch, and the  *)
(* old branch is applied again.                                             *)
(***************************************************************************)
SwitchForkFails ==
    /\ MayWrite
    /\ \E k \in 1..MaxUndone :
         /\ k <= Len(chain)
         /\ \E c \in {Base(k)} \cup Branches(Base(k), 1) :
              Restore(chain, (IF c = Base(k) THEN <<>> ELSE c[Len(c)].txs) \o Popped(k))
    /\ UNCHANGED <<checked, gen, singleWrite>>
-----------------------------------------------------------------------------
(***************************************************************************)
(* maybe_produce_block and generate_block.  generate_block takes the write  *)
(* lock to choose the transactions, releases it, reads the id of the head   *)
(* block and takes the lock again in push_block.                            *)
(***************************************************************************)
Idle == [stage |-> "none", time |-> 0, txs |-> <<>>, previous |-> 0, retry |-> 0]

StartProducing ==
    /\ gen.stage = "none"
    /\ \E now \in Times(chain) : gen' = [Idle EXCEPT !.stage = "build", !.time = now]
    /\ UNCHANGED <<chain, pending, session, work, checked, singleWrite>>

\* Mutant: the pending transactions are taken as they are.
BuildBlockUnchecked ==
    /\ gen.stage = "build"
    /\ HeadState.time < gen.time
    /\ session' = FALSE
    /\ work' = HeadState
    /\ gen' = [gen EXCEPT !.stage = "head",
                          !.txs = SelectSeq(pending, LAMBDA t : /\ expiration[t] >= gen.time
                                                             /\ Len(pending) <= MaxBlockTx)]
    /\ UNCHANGED <<chain, pending, checked, singleWrite>>

BuildBlock ==
    /\ gen.stage = "build"
    /\ HeadState.time < gen.time
    /\ session' = FALSE
    /\ work' = HeadState
    /\ gen' = [gen EXCEPT !.stage = "head",
                          !.txs = Kept(HeadState, pending, MaxBlockTx, gen.time)]
    /\ UNCHANGED <<chain, pending, checked, singleWrite>>

\* get_slot_at_time(when) is no longer positive.
BuildBlockThrows ==
    /\ gen.stage = "build"
    /\ HeadState.time >= gen.time
    /\ gen' = [gen EXCEPT !.stage = "clear"]
    /\ UNCHANGED <<chain, pending, session, work, checked, singleWrite>>

\* head_block_id(): a chain is only ever replaced by a longer one, so the number
\* of its head tells it apart.
ReadHead ==
    /\ gen.stage = "head"
    /\ gen' = [gen EXCEPT !.stage = "push", !.previous = Len(chain)]
    /\ UNCHANGED <<chain, pending, session, work, checked, singleWrite>>

PushGenerated ==
    /\ gen.stage = "push"
    /\ gen.previous = Len(chain)
    /\ IF BlockApplies(chain, gen.time, gen.txs)
         THEN /\ \E tag \in Tag : Restore(Extend(chain, gen.time, gen.txs, tag), <<>>)
              /\ gen' = Idle
         ELSE /\ Restore(chain, <<>>)
              /\ gen' = [gen EXCEPT !.stage = "clear"]
    /\ UNCHANGED <<checked, singleWrite>>

\* The head has changed meanwhile: the block goes to a fork.
PushGeneratedToFork ==
    /\ gen.stage = "push"
    /\ gen.previous # Len(chain)
    /\ Restore(chain, <<>>)
    /\ gen' = Idle
    /\ UNCHANGED <<checked, singleWrite>>

\* "Clearing pending transactions and attempting again"
ClearPending ==
    /\ gen.stage = "clear"
    /\ pending' = <<>>
    /\ session' = FALSE
    /\ work' = HeadState
    /\ gen' = IF gen.retry = 0 THEN [gen EXCEPT !.stage = "build", !.retry = 1] ELSE Idle
    /\ UNCHANGED <<chain, checked, singleWrite>>

Produce == \/ StartProducing
           \/ BuildBlock
           \/ BuildBlockThrows
           \/ ReadHead
           \/ PushGenerated
           \/ PushGeneratedToFork
           \/ ClearPending
-----------------------------------------------------------------------------
Init == /\ chain = <<>>
        /\ pending = <<>>
        /\ session = FALSE
        /\ work = Genesis
        /\ checked = {}
        /\ gen = Idle
        /\ singleWrite \in WriteModes

Next == \/ \E t \in Tx : ValidateTransaction(t) \/ PushTransaction(t)
        \/ PushBlock
        \/ PushBlockNotApplied
        \/ SwitchFork
        \/ SwitchForkFails
        \/ Produce

Spec == Init /\ [][Next]_vars
-----------------------------------------------------------------------------
TypeOK == /\ chain \in Seq(Block)
          /\ pending \in Seq(Tx)
          /\ session \in BOOLEAN
          /\ work \in State
          /\ checked \in SUBSET Tx
          /\ gen.stage \in {"none", "build", "head", "push", "clear"}
          /\ gen.txs \in Seq(Tx)
          /\ singleWrite \in BOOLEAN

Unique(c) ==
    \A m, n \in 1..Len(c) :
      \A i \in 1..Len(c[m].txs), j \in 1..Len(c[n].txs) :
        c[m].txs[i] = c[n].txs[j] => m = n /\ i = j

(***************************************************************************)
(* No transaction is on a chain twice, although the index of unique         *)
(* transactions forgets it as soon as it has expired and a transaction may  *)
(* be offered again at any time, by anyone and after any fork.              *)
(***************************************************************************)
NoDuplicates == Unique(chain)

(***************************************************************************)
(* Outside of generate_block the database shows the head state with all the *)
(* pending transactions applied in their order, and a session is open when  *)
(* there are any (what clear_pending asserts): "We have temporarily broken  *)
(* the invariant that _pending_tx_session is the result of applying         *)
(* _pending_tx" (_generate_block).                                          *)
(***************************************************************************)
SessionIsPending ==
    gen.stage = "none" =>
      /\ pending # <<>> => session
      /\ work = With(HeadState, Range(pending))
      /\ \A i \in 1..Len(pending) :
           Applies(With(HeadState, First(pending, i - 1)), pending[i], FALSE)

ToBeKept == Range(pending) \cup UNION {Range(chain[n].txs) : n \in 1..Len(chain)}

(***************************************************************************)
(* A transaction that was pending or in an undone block is dropped only     *)
(* when it no longer applies, whatever the order in which the restorer      *)
(* offers them after a switch or a failed switch.  Only a production that   *)
(* failed throws them away.                                                 *)
(***************************************************************************)
NothingLost ==
    [][gen.stage = "clear" \/ \A t \in ToBeKept : t \in ToBeKept' \/ ~Applies(work', t, TRUE)]_vars

(***************************************************************************)
(* With a single write thread generate_block runs in "the same thread as    *)
(* used in chain-plugin" (maybe_produce_block): the block it builds applies *)
(* and the pending transactions are never thrown away.                      *)
(***************************************************************************)
ProductionSucceeds == singleWrite => gen.stage # "clear"
=============================================================================
