----------------------------- MODULE BlockSync -----------------------------
(***************************************************************************)
(* How a node fetches the blocks it is missing (libraries/network/node.cpp  *)
(* and its delegate, plugins/p2p/p2p_plugin.cpp).                           *)
(*                                                                          *)
(* One node is modelled with the state it keeps about each of its peers.    *)
(* A peer runs the same program: what it answers is computed by the         *)
(* delegate's own functions from the chain it has.  A connection is a TCP   *)
(* stream, so a peer answers in the order it was asked.  `wire[p]' holds    *)
(* the requests p has not answered yet.                                     *)
(*                                                                          *)
(* The handlers are fibers of one thread.  The one call they wait in for    *)
(* long is handle_block: it is the queue `handling', emptied in order by    *)
(* the thread that owns the database.  A block of normal operation is       *)
(* handled by the fiber that reads from its peer: until it is done, nothing *)
(* more is read from this peer.                                             *)
(***************************************************************************)
EXTENDS BlockTree, Sequences, SequencesExt

CONSTANTS
    Peers,          \* the nodes a connection may exist to
    InitHead,       \* head_block_id() of this node when it starts
    InitPeerHead,   \* the head of each peer
    UndoDepth,      \* blocks that can be undone below the head
    IdsPerReply,    \* `limit' of get_block_ids (2000)
    PerPeer,        \* _maximum_blocks_per_peer_during_syncing (200)
    MinPrefetch,    \* GRAPHENE_NET_MIN_BLOCK_IDS_TO_PREFETCH (10000)
    MaxHandling,    \* _maximum_number_of_blocks_to_handle_at_one_time (200)
    MaxPrefetch,    \* _maximum_number_of_sync_blocks_to_prefetch (2000)
    Mute,           \* peers that may stop sending anything
    Chatty,         \* peers that may stop answering but still send messages
    MaxEvents       \* bound: connections lost, blocks that reach a peer from
                    \* elsewhere, requests for ids made by peers

ASSUME SyncAssumption ==
    /\ InitHead \in Id
    /\ InitPeerHead \in [Peers -> Id]
    /\ IdsPerReply \in Nat \ {0, 1}
    /\ PerPeer \in Nat \ {0}
    /\ MaxHandling \in Nat \ {0}

VARIABLES
    peers,      \* peer_connection: what the node knows of each peer
    wire,       \* requests a peer has not answered, oldest first
    node,       \* node_impl: requests, received blocks, loops to run
    chain,      \* the delegate's chain: its head and the blocks it knows
    world       \* the peers themselves, and what was lost so far

vars == <<peers, wire, node, chain, world>>

-----------------------------------------------------------------------------
(* The state of a connection, and of the node. *)

\* A peer_connection as its constructor leaves it.
NoPeer ==
    [ conn |-> "none",
      toGet |-> <<>>,           \* ids_of_items_to_get
      processing |-> {},        \* ids_of_items_being_processed
      unfetched |-> 0,          \* number_of_unfetched_item_ids
      weNeed |-> TRUE,          \* we_need_sync_items_from_peer
      theyNeed |-> TRUE,        \* peer_needs_sync_items_from_us
      last |-> Genesis,         \* last_block_delegate_has_seen
      asked |-> <<>>,           \* item_ids_requested_from_peer
      requested |-> {},         \* sync_items_requested_from_peer
      items |-> {},             \* items_requested_from_peer
      inventory |-> {},         \* inventory_peer_advertised_to_us
      offered |-> {} ]          \* inventory_advertised_to_peer

Active(s) == {p \in Peers : s.peers[p].conn = "active"}

Idle(c) == c.requested = {} /\ c.asked = <<>> /\ c.items = {}

\* A handler is a function from states to states: the parts it may change.
State == [peers |-> peers, wire |-> wire, node |-> node, chain |-> chain]

Becomes(after) ==
    \E s \in {after} :
        /\ peers' = s.peers
        /\ wire' = s.wire
        /\ node' = s.node
        /\ chain' = s.chain

Send(s, p, m) == [s EXCEPT !.wire[p] = Append(@, m)]

trigger_fetch_sync_items_loop(s) == [s EXCEPT !.node.fetch = TRUE]

trigger_fetch_items_loop(s) == [s EXCEPT !.node.fetchItems = TRUE]

trigger_process_backlog(s) == [s EXCEPT !.node.backlog = TRUE]

-----------------------------------------------------------------------------
(* The delegate: what a node answers, and how it describes its chain. *)

\* The block numbers of a synopsis: every step halves what is left.
Halving(low, high) ==
    LET from[n \in Nat] ==
          IF n > high THEN <<>>
          ELSE <<n>> \o from[n + (high - n + 2) \div 2]
    IN  from[low]

LastNonUndoable(head) ==
    IF num[head] > UndoDepth THEN num[head] - UndoDepth ELSE 0

IsIncluded(head, b) == b \in ancestors[head]

\* The block where the chain that ends in b leaves the preferred one.
ForkPoint(head, b) == Max({num[a] : a \in ancestors[head] \cap ancestors[b]})

\* get_blockchain_synopsis throws block_older_than_undo_history.
ForkedTooLongAgo(head, ref) ==
    /\ ref # Genesis
    /\ ~IsIncluded(head, ref)
    /\ ForkPoint(head, ref) < LastNonUndoable(head)

get_blockchain_synopsis(head, ref, after) ==
    LET top  == IF ref = Genesis THEN head ELSE ref
        high == num[top]
        lib  == LastNonUndoable(head)
        low0 == IF ref # Genesis /\ IsIncluded(head, ref) /\ high < lib
                THEN high ELSE lib
        low  == IF low0 = 0 THEN 1 ELSE low0
        nums == SelectSeq(Halving(low, high + after), LAMBDA n : n <= high)
    IN  IF top = Genesis THEN <<>>
        ELSE [i \in DOMAIN nums |-> AncestorAt(top, nums[i])]

\* The ids after the last block of the synopsis that is on this chain (that
\* block first), and how many more there are.
get_block_ids(head, synopsis) ==
    LET shared == {i \in DOMAIN synopsis : IsIncluded(head, synopsis[i])}
        from   == IF synopsis = <<>> THEN 1 ELSE num[synopsis[Max(shared)]]
        upto   == IF from + IdsPerReply - 1 < num[head]
                  THEN from + IdsPerReply - 1 ELSE num[head]
    IN  IF head = Genesis \/ (synopsis # <<>> /\ shared = {})
        THEN [ids |-> <<>>, remaining |-> 0]
        ELSE [ids |-> [i \in 1 .. (upto - from + 1) |->
                          AncestorAt(head, from + i - 1)],
              remaining |-> num[head] - upto]

\* The answer shows the asker to be in sync with the one who answers.
ShowsInSync(synopsis, reply) ==
    \/ reply.ids = <<>>
    \/ /\ Len(reply.ids) = 1
       /\ reply.ids[1] \in Range(synopsis)

-----------------------------------------------------------------------------
(* Connections. *)

\* disconnect_from_peer: the connection stays open, on the closing list.
disconnect_from_peer(s, p) == [s EXCEPT !.peers[p].conn = "closing"]

\* What the synopsis for a peer looks like: the part of our chain up to the
\* last block we know the peer has seen, then the ids it already told us.
create_blockchain_synopsis_for_peer(s, p) ==
    LET c     == s.peers[p]
        ours  == get_blockchain_synopsis(s.chain.head, c.last, Len(c.toGet))
        first == num[c.toGet[1]]
        low   == IF ours = <<>> THEN 1 ELSE num[ours[1]]
        nums  == SelectSeq(Halving(low, first + Len(c.toGet) - 1),
                           LAMBDA n : n >= first)
    IN  IF c.toGet = <<>> THEN ours
        ELSE ours \o [i \in DOMAIN nums |-> c.toGet[nums[i] - first + 1]]

fetch_next_batch_of_item_ids_from_peer(s, p) ==
    IF ForkedTooLongAgo(s.chain.head, s.peers[p].last)
    THEN disconnect_from_peer(s, p)
    ELSE LET synopsis == create_blockchain_synopsis_for_peer(s, p)
         IN  Send([s EXCEPT !.peers[p].asked = <<synopsis>>],
                  p, [type |-> "ids", synopsis |-> synopsis])

start_synchronizing_with_peer(s, p) ==
    fetch_next_batch_of_item_ids_from_peer(
        [s EXCEPT !.peers[p].toGet = <<>>,
                  !.peers[p].unfetched = 0,
                  !.peers[p].weNeed = TRUE,
                  !.peers[p].last = Genesis], p)

\* Items of a closed connection that another peer has are fetched again.
Reschedule(s, items) ==
    LET offered == {b \in items : \E q \in Active(s) : b \in s.peers[q].inventory}
    IN  IF items = {} THEN s
        ELSE trigger_fetch_items_loop(
               [s EXCEPT !.node.toFetch = @ \o SetToSeq(offered \ Range(@))])

\* Mutant: the requests of the peer are not taken back.
on_connection_closed_keeping(s, p) ==
    [s EXCEPT !.peers[p] = NoPeer, !.wire[p] = <<>>]

\* on_connection_closed: what the peer still owes is asked of another peer.
on_connection_closed(s, p) ==
    LET c      == s.peers[p]
        closed == [s EXCEPT !.peers[p] = NoPeer,
                            !.wire[p] = <<>>,
                            !.node.requests = @ \ c.requested]
    IN  Reschedule(IF c.requested = {} THEN closed
                   ELSE trigger_fetch_sync_items_loop(closed), c.items)

\* The peer forgets what it thought of us when the connection is gone.
PeerForgets(p) ==
    [world EXCEPT !.advertises[p] = FALSE]
-----------------------------------------------------------------------------
(* Lists of block ids: on_blockchain_item_ids_inventory_message. *)

\* The answer starts with a block we named (or with block 1).
ValidAnswer(synopsis, ids) ==
    \/ ids = <<>>
    \/ IF synopsis = <<>> THEN num[ids[1]] = 1 ELSE ids[1] \in Range(synopsis)

\* The peer has nothing for us: normal operation with this peer begins.
UpToDate(s, c, reply) ==
    /\ reply.remaining = 0
    /\ \/ reply.ids = <<>>
       \/ Len(reply.ids) = 1 /\ reply.ids[1] \in s.chain.known
    /\ c.toGet = <<>>
    /\ c.unfetched = 0

\* Ids the delegate already has are dropped from the front, unless another
\* peer is about to deliver the first of them.
FlushKnown(s, p, ids) ==
    LET c == s.peers[p]
        firstOfAnother == \E q \in Active(s) \ {p} :
                             /\ s.peers[q].toGet # <<>>
                             /\ s.peers[q].toGet[1] = ids[1]
        n == Max({i \in 0 .. Len(ids) : \A j \in 1 .. i : ids[j] \in s.chain.known})
    IN  IF firstOfAnother \/ n = 0
        THEN [c EXCEPT !.toGet = ids]
        ELSE [c EXCEPT !.toGet = SubSeq(ids, n + 1, Len(ids)), !.last = ids[n]]

\* The new list replaces the end of the old one from their shared id on.
Extend(c, ids) ==
    LET at == {i \in DOMAIN c.toGet : c.toGet[i] = ids[1]}
    IN  IF at = {}
        THEN [c EXCEPT !.toGet = Tail(ids), !.last = ids[1]]
        ELSE [c EXCEPT !.toGet = SubSeq(@, 1, Max(at) - 1) \o ids]

Merge(s, p, ids) ==
    LET c == s.peers[p]
    IN  IF ids = <<>> THEN c
        ELSE IF c.toGet = <<>> THEN FlushKnown(s, p, ids) ELSE Extend(c, ids)

\* More ids are asked for until there are enough to fetch blocks.
AskOrFetch(s, p, remaining) ==
    LET n == Len(s.peers[p].toGet)
    IN  IF (remaining # 0 /\ n > MinPrefetch) \/ (remaining = 0 /\ n > 0)
        THEN trigger_fetch_sync_items_loop(s)
        ELSE fetch_next_batch_of_item_ids_from_peer(s, p)

on_blockchain_item_ids_inventory_message(s, p, reply) ==
    LET c       == s.peers[p]
        cleared == [s EXCEPT !.peers[p].asked = <<>>]
        merged  == [cleared EXCEPT !.peers[p] =
                       [Merge(cleared, p, reply.ids) EXCEPT
                           !.unfetched = reply.remaining]]
    IN  IF c.asked = <<>> THEN s
        ELSE IF ~ValidAnswer(c.asked[1], reply.ids)
        THEN disconnect_from_peer(s, p)
        ELSE IF UpToDate(s, c, reply)
        THEN [cleared EXCEPT !.peers[p].weNeed = FALSE]
        ELSE AskOrFetch(merged, p, reply.remaining)

-----------------------------------------------------------------------------
(* Fetching blocks. *)

\* have_already_received_sync_item
Received(n) == Range(n.arrived) \cup Range(n.received)

\* What one iteration of fetch_sync_items_loop asks of p: ids of its list that
\* are neither here nor asked for, of this peer or of an earlier one.
Choice(s, p) ==
    LET c == s.peers[p]
        wanted == SelectSeq(c.toGet, LAMBDA b :
                     b \notin Received(s.node) \cup s.node.requests)
    IN  IF c.weNeed /\ Idle(c)
        THEN SubSeq(wanted, 1, IF Len(wanted) < PerPeer THEN Len(wanted) ELSE PerPeer)
        ELSE <<>>

request_sync_items_from_peer(s, p, ids) ==
    [s EXCEPT !.node.requests = @ \cup Range(ids),
              !.peers[p].requested = @ \cup Range(ids),
              !.wire[p] = @ \o [i \in DOMAIN ids |->
                                   [type |-> "block", id |-> ids[i]]]]

\* The peers are visited in the order of their addresses in memory.
fetch_sync_items_loop(s, order) ==
    LET visit(t, p) == request_sync_items_from_peer(t, p, Choice(t, p))
        started == [s EXCEPT !.node.fetch = FALSE]
    IN  IF s.node.suspended THEN started
        ELSE FoldLeft(visit, started, order)

\* Mutant: the ids left out of the last answer are not asked for.
ReceiveSyncBlockOnly(s, p, b) ==
    trigger_process_backlog(trigger_fetch_sync_items_loop(
        [s EXCEPT !.peers[p].requested = @ \ {b},
                  !.node.requests = @ \ {b},
                  !.node.arrived = Append(@, b)]))

\* process_block_message for a block that was asked for during sync.
ReceiveSyncBlock(s, p, b) ==
    LET got == trigger_process_backlog(
                 [s EXCEPT !.peers[p].requested = @ \ {b},
                           !.node.requests = @ \ {b},
                           !.node.arrived = Append(@, b)])
        c == got.peers[p]
    IN  IF ~Idle(c) THEN got
        ELSE IF c.unfetched > 0 /\ Len(c.toGet) < MinPrefetch
        THEN fetch_next_batch_of_item_ids_from_peer(got, p)
        ELSE trigger_fetch_sync_items_loop(got)

\* on_item_ids_inventory_message: p has a block that is new to us.  We do not
\* fetch what we have offered to our peers ourselves.
Advertised(s, p, b) ==
    LET told == [s EXCEPT !.peers[p].inventory = @ \cup {b}]
        asked == \E q \in Active(s) : b \in s.peers[q].items
        ours == \/ \E q \in Active(s) : b \in s.peers[q].offered
                \/ \E q \in Peers : [id |-> b, from |-> q] \in Range(s.node.handling)
    IN  IF ours THEN s
        ELSE IF asked \/ b \in Range(s.node.toFetch) THEN told
        ELSE trigger_fetch_items_loop([told EXCEPT !.node.toFetch = Append(@, b)])

\* fetch_items_loop: at most one item from every idle peer that has it.
fetch_items_loop(s, order) ==
    LET able(t, b) == SelectSeq(order, LAMBDA p :
                         Idle(t.peers[p]) /\ b \in t.peers[p].inventory)
        ask(t, b) ==
          IF able(t, b) = <<>> THEN t
          ELSE LET p == able(t, b)[1]
               IN  Send([t EXCEPT !.peers[p].items = @ \cup {b},
                                  !.node.toFetch = SelectSeq(@, LAMBDA x : x # b)],
                        p, [type |-> "block", id |-> b])
    IN  FoldLeft(ask, [s EXCEPT !.node.fetchItems = FALSE], s.node.toFetch)

\* process_block_message: a regular item waits for the delegate.
ReceiveItem(s, p, b) ==
    [s EXCEPT !.peers[p].items = @ \ {b},
              !.node.handling = Append(@, [id |-> b, from |-> p])]

process_block_message(s, p, b) ==
    IF b \in s.peers[p].items THEN ReceiveItem(s, p, b)
    ELSE IF b \in s.peers[p].requested THEN ReceiveSyncBlock(s, p, b)
    ELSE disconnect_from_peer(s, p)

-----------------------------------------------------------------------------
(* Passing blocks to the delegate. *)

\* Mutant: a block is next wherever it is in a list.
NextForAny(s, b) == {p \in Active(s) : b \in Range(s.peers[p].toGet)}

NextFor(s, b) == {p \in Active(s) : /\ s.peers[p].toGet # <<>>
                                    /\ s.peers[p].toGet[1] = b}

\* One turn of the loop of process_backlog_of_sync_blocks: the first received
\* block that some peer's list starts with.  `more' says the loop goes on.
BacklogTurn(s) ==
    LET ready == {i \in DOMAIN s.node.received :
                     NextFor(s, s.node.received[i]) # {}}
        i == Min(ready)
        b == s.node.received[i]
        popped == [s EXCEPT !.peers = [p \in Peers |->
                     IF p \in NextFor(s, b)
                     THEN [s.peers[p] EXCEPT !.toGet = Tail(@),
                                             !.processing = @ \cup {b}]
                     ELSE s.peers[p]]]
    IN  IF ready = {} THEN [state |-> s, more |-> FALSE]
        ELSE IF b \in s.node.accepted
        THEN [state |-> popped, more |-> FALSE]
        ELSE [state |-> [popped EXCEPT !.node.received = RemoveAt(@, i),
                                       !.node.handling = Append(@, [id |-> b, from |-> "sync"])],
              more |-> TRUE]

SyncHandling(s) == SelectSeq(s.node.handling, LAMBDA h : h.from = "sync")

AtLimit(s) == Len(SyncHandling(s)) >= MaxHandling

\* The loop runs until nothing fits or the delegate has enough to do.
BacklogLoop(s) ==
    LET turn(r, i) ==
          IF ~r.more THEN r
          ELSE LET t == BacklogTurn(r.state)
               IN  IF AtLimit(t.state)
                   THEN [state |-> [t.state EXCEPT !.node.suspended =
                                       Len(t.state.node.received) >= MaxPrefetch],
                         more |-> FALSE]
                   ELSE t
    IN  FoldLeft(turn, [state |-> s, more |-> TRUE],
                 [i \in 1 .. (Len(s.node.received) + 1) |-> i]).state

process_backlog_of_sync_blocks(s) ==
    LET started == [s EXCEPT !.node.backlog = FALSE]
        ended   == BacklogLoop([started EXCEPT
                                   !.node.suspended = FALSE,
                                   !.node.received = started.node.arrived \o @,
                                   !.node.arrived = <<>>])
    IN  IF AtLimit(s) THEN started
        ELSE IF ended.node.suspended THEN ended
        ELSE trigger_fetch_sync_items_loop(ended)

-----------------------------------------------------------------------------
(* The delegate's answer: handle_block. *)

\* A block whose predecessor is unknown is refused: fork_database throws.
Linkable(s, b) == previous[b] \in s.chain.known

\* push_block: the longer chain is preferred.
Pushed(s, b) ==
    [s EXCEPT !.chain.known = @ \cup {b},
              !.chain.head = IF num[b] > num[@] THEN b ELSE @,
              !.node.accepted = @ \cup {b}]

ForEach(handler(_, _), s, S) == FoldLeft(handler, s, SetToSeq(S))

\* send_sync_block_to_node_delegate when the block was accepted.
SyncBlockAccepted(s, b) ==
    LET t == Pushed(s, b)
        idleLists == {p \in Active(t) : /\ t.peers[p].toGet = <<>>
                                        /\ t.peers[p].processing = {}}
        offering == {p \in Active(t) : b \in t.peers[p].processing}
        done == [t EXCEPT !.peers = [p \in Peers |->
                   IF p \in offering
                   THEN [t.peers[p] EXCEPT !.processing = @ \ {b}, !.last = b]
                   ELSE t.peers[p]]]
        newlyEmpty == {p \in offering : /\ done.peers[p].toGet = <<>>
                                        /\ done.peers[p].unfetched = 0
                                        /\ done.peers[p].processing = {}}
        toSync == {p \in idleLists : ~t.peers[p].theyNeed /\ ~t.peers[p].weNeed}
        asked == ForEach(fetch_next_batch_of_item_ids_from_peer, done, newlyEmpty)
    IN  ForEach(start_synchronizing_with_peer, asked, toSync)

\* ... and when it was refused: whoever offered it is disconnected.
SyncBlockRefused(s, b) ==
    ForEach(disconnect_from_peer, s, {p \in Active(s) : b \in s.peers[p].processing})

send_sync_block_to_node_delegate(s, b) ==
    trigger_process_backlog(IF Linkable(s, b) THEN SyncBlockAccepted(s, b)
                            ELSE SyncBlockRefused(s, b))

\* advertise_inventory_loop: a block is offered to the peers that are in sync
\* with us and did not offer it to us.
Offer(s, b) ==
    [s EXCEPT !.peers = [q \in Peers |->
       IF /\ q \in Active(s)
          /\ ~s.peers[q].theyNeed
          /\ b \notin s.peers[q].inventory
       THEN [s.peers[q] EXCEPT !.offered = @ \cup {b}] ELSE s.peers[q]]]

(***************************************************************************)
(* process_block_during_normal_operation.  The chain throws golos::chain::  *)
(* unlinkable_block_exception; the handlers of the plugin and of the node   *)
(* are for golos::network::unlinkable_block_exception.  So a block that     *)
(* does not link is handled like an invalid one.                            *)
(***************************************************************************)
process_block_during_normal_operation(s, p, b) ==
    LET seen(t, q) == [t EXCEPT !.peers[q].last = b]
        offering == {q \in Active(s) : b \in s.peers[q].inventory}
        relayed(t) == Offer(ForEach(seen, t, offering), b)
        opened == {q \in Peers : s.peers[q].conn # "none"}
        handled == IF b \in s.node.accepted THEN relayed(s)
                   ELSE IF Linkable(s, b) THEN relayed(Pushed(s, b))
                   ELSE ForEach(disconnect_from_peer, s, NextFor(s, b) \cup ({p} \cap opened))
    IN  IF Idle(handled.peers[p]) THEN trigger_fetch_items_loop(handled)
        ELSE handled

-----------------------------------------------------------------------------
(* Actions: what the node does. *)

\* A handshake ended: new_peer_just_added.
MayConnect(p) == peers[p].conn = "none" /\ p \notin world.stalled

Connect(p) ==
    /\ MayConnect(p)
    /\ Becomes(start_synchronizing_with_peer(
                 [State EXCEPT !.peers[p].conn = "active"], p))
    /\ UNCHANGED world

Open(p) == peers[p].conn \in {"active", "closing"}

Reads(p) == p \notin {h.from : h \in Range(node.handling)}

Answers(p, type) ==
    /\ Open(p)
    /\ Reads(p)
    /\ p \notin world.stalled
    /\ wire[p] # <<>>
    /\ Head(wire[p]).type = type

Answered(p) == [State EXCEPT !.wire[p] = Tail(@)]

ReceiveIds(p) ==
    /\ Answers(p, "ids")
    /\ LET synopsis == Head(wire[p]).synopsis
           reply == get_block_ids(world.head[p], synopsis)
       IN  /\ Becomes(on_blockchain_item_ids_inventory_message(Answered(p), p, reply))
           /\ world' = [world EXCEPT !.advertises[p] = ShowsInSync(synopsis, reply)]

ReceiveBlock(p) ==
    /\ Answers(p, "block")
    /\ LET b == Head(wire[p]).id
       IN  Becomes(process_block_message(Answered(p), p, b))
    /\ UNCHANGED world

FetchSyncItems ==
    /\ node.fetch
    /\ \E order \in SetToSeqs(Active(State)) :
          Becomes(fetch_sync_items_loop(State, order))
    /\ UNCHANGED world

ProcessBacklog ==
    /\ node.backlog
    /\ Becomes(process_backlog_of_sync_blocks(State))
    /\ UNCHANGED world

HandleBlock ==
    /\ node.handling # <<>>
    /\ LET h == Head(node.handling)
           s == [State EXCEPT !.node.handling = Tail(@)]
       IN  Becomes(IF h.from = "sync"
                   THEN send_sync_block_to_node_delegate(s, h.id)
                   ELSE process_block_during_normal_operation(s, h.from, h.id))
    /\ UNCHANGED world

FetchItems ==
    /\ node.fetchItems
    /\ \E order \in SetToSeqs(Active(State)) :
          Becomes(fetch_items_loop(State, order))
    /\ UNCHANGED world

\* on_fetch_blockchain_item_ids_message: a peer compares its chain with ours.
PeerAsksForIds(p) ==
    /\ peers[p].conn = "active"
    /\ Reads(p)
    /\ p \notin world.stalled
    /\ world.events < MaxEvents
    /\ LET synopsis == get_blockchain_synopsis(world.head[p], Genesis, 0)
           reply == get_block_ids(chain.head, synopsis)
           s == [State EXCEPT !.peers[p].theyNeed = ~ShowsInSync(synopsis, reply)]
           unknown == synopsis # <<>> /\ Last(synopsis) \notin chain.known
       IN  Becomes(IF ~peers[p].weNeed /\ unknown
                   THEN start_synchronizing_with_peer(s, p) ELSE s)
    /\ world' = [world EXCEPT !.events = @ + 1]

\* on_fetch_items_message: the peer gets the block after its head from us,
\* because it syncs with us or because the block was offered to it.
PeerFetchesItem(p) ==
    /\ peers[p].conn = "active"
    /\ Reads(p)
    /\ p \notin world.stalled
    /\ IsIncluded(chain.head, world.head[p])
    /\ num[world.head[p]] < num[chain.head]
    /\ LET b == AncestorAt(chain.head, num[world.head[p]] + 1)
       IN  /\ peers[p].theyNeed \/ b \in peers[p].offered
           /\ peers' = [peers EXCEPT ![p].last = b]
           /\ world' = [world EXCEPT !.head[p] = b]
    /\ UNCHANGED <<wire, node, chain>>

\* A block reaches p from elsewhere.  A peer that holds us to be in sync
\* advertises it to us.
PeerGrows(p) ==
    /\ Reads(p)
    /\ p \notin world.stalled
    /\ world.events < MaxEvents
    /\ \E b \in Block :
          /\ previous[b] = world.head[p]
          /\ world' = [world EXCEPT !.head[p] = b, !.events = @ + 1]
          /\ Becomes(IF world.advertises[p] THEN Advertised(State, p, b) ELSE State)

-----------------------------------------------------------------------------
(* Actions: connections that fail. *)

\* The other end goes away, or the read loop throws.
LoseConnection(p) ==
    /\ Open(p)
    /\ world.events < MaxEvents
    /\ Becomes(on_connection_closed(State, p))
    /\ world' = [PeerForgets(p) EXCEPT !.events = @ + 1, !.drops = @ + 1]

\* A peer stops answering.
Stall(p) ==
    /\ peers[p].conn = "active"
    /\ p \in Mute \cup Chatty
    /\ p \notin world.stalled
    /\ world' = [world EXCEPT !.stalled = @ \cup {p}]
    /\ UNCHANGED <<peers, wire, node, chain>>

(***************************************************************************)
(* terminate_inactive_connections_loop, for one active peer.  Its loop      *)
(* first looks for sync items that are overdue and then leaves the loop     *)
(* with `break' before the peer is put on a list: nothing is done about     *)
(* them.  A peer that is silent for long is disconnected; one that owes a   *)
(* list of ids or an item is terminated, which closes the connection at     *)
(* once.                                                                    *)
(***************************************************************************)
\* Mutant: a peer we wait for is left alone.
SilentIdle(p) ==
    /\ peers[p].conn = "active"
    /\ p \in world.stalled \ Chatty
    /\ peers[p].requested = {}

Silent(p) == peers[p].conn = "active" /\ p \in world.stalled \ Chatty

DisconnectSilent(p) ==
    /\ Silent(p)
    /\ Becomes(disconnect_from_peer(State, p))
    /\ UNCHANGED world

Overdue(p) ==
    /\ peers[p].conn = "active"
    /\ peers[p].asked # <<>> \/ peers[p].items # {}
    /\ peers[p].requested = {}
    /\ p \in world.stalled

TerminateOverdue(p) ==
    /\ Overdue(p)
    /\ Becomes(on_connection_closed(State, p))
    /\ world' = PeerForgets(p)

\* A peer on the closing list did not close the connection in time.
TerminateClosing(p) ==
    /\ peers[p].conn = "closing"
    /\ Becomes(on_connection_closed(State, p))
    /\ world' = PeerForgets(p)

-----------------------------------------------------------------------------
Init ==
    /\ peers = [p \in Peers |-> NoPeer]
    /\ wire = [p \in Peers |-> <<>>]
    /\ node = [ requests |-> {},        \* _active_sync_requests
                arrived |-> <<>>,       \* _new_received_sync_items
                received |-> <<>>,      \* _received_sync_items
                handling |-> <<>>,      \* _handle_message_calls_in_progress
                accepted |-> {InitHead},\* _most_recent_blocks_accepted
                toFetch |-> <<>>,       \* _items_to_fetch
                fetchItems |-> FALSE,   \* _items_to_fetch_updated
                fetch |-> FALSE,        \* _sync_items_to_fetch_updated
                backlog |-> FALSE,      \* a backlog task is scheduled
                suspended |-> FALSE ]   \* _suspend_fetching_sync_blocks
    /\ chain = [head |-> InitHead, known |-> ancestors[InitHead]]
    /\ \E S \in SUBSET Mute :
          world = [ head |-> InitPeerHead,
                    advertises |-> [p \in Peers |-> FALSE],
                    stalled |-> S, events |-> 0, drops |-> 0 ]

NodeStep == FetchSyncItems \/ FetchItems \/ ProcessBacklog \/ HandleBlock

PeerStep(p) ==
    \/ Connect(p) \/ ReceiveIds(p) \/ ReceiveBlock(p)
    \/ PeerAsksForIds(p) \/ PeerFetchesItem(p) \/ PeerGrows(p)
    \/ LoseConnection(p) \/ Stall(p)
    \/ DisconnectSilent(p) \/ TerminateOverdue(p) \/ TerminateClosing(p)

Next == NodeStep \/ \E p \in Peers : PeerStep(p)

Spec == Init /\ [][Next]_vars

(***************************************************************************)
(* Weak fairness, with the condition that enables an action written out:    *)
(* each is enabled exactly when its guard holds.  The loops of the node run *)
(* when they are triggered, the delegate's thread gets through its queue,   *)
(* the timer task runs every second, the connect loop keeps trying, and a   *)
(* peer answers unless it has stalled.  Nothing is assumed of what else     *)
(* peers do.                                                                *)
(***************************************************************************)
NodeFairness ==
    /\ []<>~node.fetch \/ []<><<FetchSyncItems>>_vars
    /\ []<>~node.fetchItems \/ []<><<FetchItems>>_vars
    /\ []<>~node.backlog \/ []<><<ProcessBacklog>>_vars
    /\ []<>(node.handling = <<>>) \/ []<><<HandleBlock>>_vars

PeerFairness(p) ==
    /\ []<>~MayConnect(p) \/ []<><<Connect(p)>>_vars
    /\ []<>~Answers(p, "ids") \/ []<><<ReceiveIds(p)>>_vars
    /\ []<>~Answers(p, "block") \/ []<><<ReceiveBlock(p)>>_vars
    /\ []<>~Silent(p) \/ []<><<DisconnectSilent(p)>>_vars
    /\ []<>~Overdue(p) \/ []<><<TerminateOverdue(p)>>_vars
    /\ []<>(peers[p].conn # "closing") \/ []<><<TerminateClosing(p)>>_vars

FairSpec == Spec /\ NodeFairness /\ \A p \in Peers : PeerFairness(p)

-----------------------------------------------------------------------------
(* Properties. *)

\* The types of the variables.
TypeOK ==
    /\ \A p \in Peers :
          /\ peers[p].conn \in {"none", "active", "closing"}
          /\ peers[p].toGet \in Seq(Block)
          /\ peers[p].processing \subseteq Block
          /\ peers[p].unfetched \in Nat
          /\ peers[p].last \in Id
          /\ peers[p].requested \subseteq Block
          /\ world.head[p] \in Id
    /\ node.requests \subseteq Block
    /\ node.arrived \in Seq(Block)
    /\ node.received \in Seq(Block)
    /\ chain.head \in chain.known
    /\ chain.known \subseteq Id

(***************************************************************************)
(* A block is asked for of one peer at a time, every request that is        *)
(* recorded is one a connected peer still owes, and a block that is here    *)
(* is not asked for again (fetch_sync_items_loop, on_connection_closed).    *)
(***************************************************************************)
RequestsOwed ==
    /\ node.requests = UNION {peers[p].requested : p \in Peers}
    /\ \A p, q \in Peers : p # q => peers[p].requested \cap peers[q].requested = {}
    /\ node.requests \cap Received(node) = {}

(***************************************************************************)
(* Blocks from the lists of peers reach the chain in order: when one is     *)
(* queued for the delegate, its predecessor is on the chain or queued       *)
(* before it, whichever peers sent them and in whatever order they came.    *)
(***************************************************************************)
HandedInOrder ==
    \A i \in DOMAIN node.handling :
        LET h == node.handling[i]
        IN  h.from = "sync" =>
              previous[h.id] \in chain.known
                 \cup {node.handling[j].id : j \in 1 .. (i - 1)}

(***************************************************************************)
(* No request stays open for ever: the peer delivers, or the timer or the   *)
(* end of the connection takes the request back.  Holds for peers that fall *)
(* silent, not for one that keeps sending other messages (Chatty).          *)
(***************************************************************************)
RequestsEnd == []<>(node.requests = {})

(***************************************************************************)
(* A node whose only peer keeps its connection gets all the peer has, also  *)
(* what the peer learns later, as long as fewer than MinPrefetch blocks     *)
(* wait for the delegate.  With that many, the last block that was asked    *)
(* for finds the list long enough, and nobody asks for the ids that were    *)
(* left out of the answer: the limits on prefetching (2000 against 10000)   *)
(* are what keeps the sync going.                                           *)
(***************************************************************************)
CatchesUpAlone ==
    \A p \in Peers \ (Mute \cup Chatty) :
        [](/\ world.drops = 0
           /\ \A q \in Peers \ {p} : peers[q].conn = "none"
           /\ Len(node.arrived) + Len(node.received) < MinPrefetch)
            => <>[](world.head[p] \in chain.known)
=============================================================================
