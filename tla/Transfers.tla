----------------------------- MODULE Transfers ------------------------------
(***************************************************************************)
(* The transfer of data between peers: graphsync, and the data transfer    *)
(* channels on top of it.                                                  *)
(***************************************************************************)
EXTENDS ActorBase, FiniteSets, TLC

(***************************************************************************)
(* Graphsync: a node's requests for blocks and its answers to the requests *)
(* of others (storage/ipfs/graphsync).  Everything runs on one thread: a   *)
(* step is one callback of the host, of the scheduler or of the node's own *)
(* components.  LocalRequests holds the callbacks of the requests made,    *)
(* Network one context per peer, a PeerContext its streams, the queue it   *)
(* writes and the responders that feed it.  At most one context of a peer  *)
(* is alive, and the scheduler holds contexts weakly: a context dropped by *)
(* findContext takes its timers with it.                                   *)
(***************************************************************************)

CONSTANTS GsPeers,          \* the peers
          GsRetries,        \* the requests whose callback asks again on an error
          GsChunks,         \* how many responses a responder can have to send
          GsDialFails,      \* whether a connection can fail
          GsMaxRequests, GsMaxRemote, GsMaxEvents     \* bounds

VARIABLES gs,               \* the node
          gsEvents          \* how often the network has interfered
gsVars == <<gs, gsEvents>>

RemoteIds == 1 .. GsMaxRemote
Ids == -GsMaxRequests .. GsMaxRequests

\* A stream is "out" (the one the node writes) or "in" (one the peer opened).
NoContext == [alive |-> FALSE]
NewContext ==
    [alive |-> TRUE, closed |-> FALSE, status |-> "internal", end |-> "none", buf |-> <<>>,
     local |-> {}, remote |-> {}, streams |-> {}, dialing |-> FALSE, responders |-> Empty,
     closing |-> FALSE, cleanups |-> 0]

GsInit ==
    /\ gs = [started |-> TRUE, next |-> 0, nextRejected |-> 0, made |-> 0, active |-> {},
             rejected |-> {}, notify |-> 0, peer |-> [p \in GsPeers |-> NoContext],
             handler |-> TRUE, crashed |-> FALSE,
             of |-> Empty,           \* the peer each request went to
             over |-> {},            \* history: requests told their end, or given up
             called |-> FALSE,       \* history: a callback ran after that
             posted |-> {},          \* history: responders handed to the node
             ended |-> {}]           \* history: responders told that they are done with
    /\ gsEvents = 0

isTerminal(status) == status # "partial"

-----------------------------------------------------------------------------
(* Reading.  A message is its length, then its bytes; what it holds is     *)
(* read whole or not at all.                                               *)

kMaxMessageSize == 2
\* LengthDelimitedMessageReader: what its owner hears after a length and `got`
\* bytes have come (a length that cannot be read counts as zero).
lengthDelimited(length, got) ==
    IF length = 0 THEN "not readable"
    ELSE IF length > kMaxMessageSize THEN "out of bounds"
    ELSE IF got # length THEN "read error"
    ELSE "message"

\* A request to fetch carries a root, one to cancel only its id.
parseRequests(rs) == \A r \in rs : r.cancel \/ r.root
extractStatusCode(code) == code \in {"partial", "full", "rejected"}
parseResponses(rs) == \A r \in rs : extractStatusCode(r.status)
\* Every block comes with the prefix of its CID and nothing after it.
parseBlocks(bs) == "prefix" \notin bs
\* MessageReader::onMessageRead and parseMessage
parseMessage(m) == parseRequests(m.requests) /\ parseResponses(m.responses) /\ parseBlocks(m.blocks)

\* The messages peers send: at most one request or one response each.
Requests(n) == [id : RemoteIds, cancel : BOOLEAN, root : BOOLEAN]
Responses(n) == [id : 1 .. n.next, status : {"partial", "full", "unknown"}]
Messages(n) ==
    {[complete |-> complete, requests |-> {r}, responses |-> {}, blocks |-> {}]
        : complete \in BOOLEAN, r \in Requests(n)}
    \cup {[complete |-> FALSE, requests |-> {}, responses |-> {r}, blocks |-> bs]
              : r \in Responses(n), bs \in {{}, {"prefix"}}}

-----------------------------------------------------------------------------
(* OutboundEndpoint and MessageQueue: what is to be written, its head on   *)
(* its way once the stream is there.                                       *)

outboundEmpty(c) == c.buf = <<>>
queueEnqueue(buf, item) == Append(buf, item)
\* A queue that is too long is taken note of in the log only.
outboundEnqueue(n, p, item) == [n EXCEPT !.peer[p].buf = queueEnqueue(@, item)]
\* The buffers that waited for the stream go to the queue in their order.
onConnected(n, p) == [n EXCEPT !.peer[p].end = "connected"]
dequeue(n, p) == [n EXCEPT !.peer[p].buf = Tail(@)]

-----------------------------------------------------------------------------
(* Requests of this node.                                                  *)

connectIfNeeded(n, p) ==
    LET c == n.peer[p]
    IN  IF c.closed \/ c.end # "none" THEN n
        ELSE [n EXCEPT !.peer[p].end = "connecting", !.peer[p].dialing = TRUE]

\* PeerContext::enqueueRequest: the queue takes it whatever its length.
enqueueRequest(n, p, id) ==
    LET m == outboundEnqueue(connectIfNeeded(n, p), p, <<"request", id>>)
    IN  [m EXCEPT !.peer[p].local = @ \cup {id}]

\* Network::findContext: a closed context is dropped and made anew.
findContext(n, p, create) ==
    LET drop == n.peer[p].alive /\ n.peer[p].closed
        m == IF drop THEN [n EXCEPT !.peer[p] = NoContext] ELSE n
    IN  IF ~m.peer[p].alive /\ create THEN [m EXCEPT !.peer[p] = NewContext] ELSE m

\* LocalRequests: ids count up from one; rejected ones down from minus one.
newRejectedRequest(n) ==
    [n EXCEPT !.nextRejected = @ - 1, !.rejected = @ \cup {n.nextRejected - 1},
              !.notify = IF @ < 2 THEN @ + 1 ELSE @, !.made = @ + 1,
              !.over = @ \ {n.nextRejected - 1}]
nextRequestId(n) == n.next + 1
newRequest(n, p) ==
    LET id == nextRequestId(n)
    IN  [n EXCEPT !.next = id, !.active = @ \cup {id}, !.made = @ + 1, !.of = With(@, id, p)]

networkMakeRequest(n, p, id) == enqueueRequest(findContext(n, p, TRUE), p, id)
makeRequestTo(n, p) ==
    IF ~n.started THEN newRejectedRequest(n)
    ELSE networkMakeRequest(newRequest(n, p), p, nextRequestId(n))

\* A callback runs: it may ask the same peer again when the end is an error.
callback(n, id, status) ==
    LET m == [n EXCEPT !.called = @ \/ id \in n.over,
                       !.over = IF isTerminal(status) THEN @ \cup {id} ELSE @]
    IN  IF status = "error" /\ id \in GsRetries /\ m.made < GsMaxRequests
        THEN makeRequestTo(m, n.of[id]) ELSE m

\* LocalRequests::onResponse: the callback of a request is forgotten before it
\* runs for the last time.
localOnResponse(n, id, status) ==
    IF id \notin n.active THEN n
    ELSE callback(IF isTerminal(status) THEN [n EXCEPT !.active = @ \ {id}] ELSE n, id, status)
\* GraphsyncImpl::onResponse
graphsyncOnResponse(n, id, status) == IF n.started THEN localOnResponse(n, id, status) ELSE n

-----------------------------------------------------------------------------
(* Closing.                                                                *)

\* Every request waiting on the stream ends (with close_status_, whatever the
\* status given).
RECURSIVE endRequests(_, _)
endRequests(n, ids) ==
    IF ids = {} THEN n
    ELSE LET id == Min(ids) IN endRequests(graphsyncOnResponse(n, id, "error"), ids \ {id})
closeLocalRequests(n, p) ==
    endRequests([n EXCEPT !.peer[p].local = {}], n.peer[p].local)

closeStream(n, p, s) ==
    LET m == [n EXCEPT !.peer[p].streams = @ \ {s}]
    IN  IF s \notin n.peer[p].streams THEN n
        ELSE IF s = "out" /\ m.peer[p].end = "connected"
        THEN LET told == closeLocalRequests(m, p)
             IN  [told EXCEPT !.peer[p].end = "none", !.peer[p].buf = <<>>]
        ELSE m

\* Every responder is told that nothing more is wanted.
endResponders(n, p) ==
    [n EXCEPT !.ended = @ \cup {<<p, id>> : id \in DOMAIN n.peer[p].responders},
              !.peer[p].responders = Empty]
\* A close that forgets the responders without a word.
endRespondersSilently(n, p) == [n EXCEPT !.peer[p].responders = Empty]
closeContextSilently(n, p) ==
    LET marked == [endRespondersSilently(n, p) EXCEPT !.peer[p].closed = TRUE, !.peer[p].closing = TRUE]
    IN  IF n.peer[p].closed THEN n ELSE closeStream(closeStream(marked, p, "in"), p, "out")
\* PeerContext::close: the network is told later, by the scheduler.
closeContext(n, p) ==
    LET marked == [endResponders(n, p) EXCEPT !.peer[p].closed = TRUE, !.peer[p].closing = TRUE]
    IN  IF n.peer[p].closed THEN n ELSE closeStream(closeStream(marked, p, "in"), p, "out")

-----------------------------------------------------------------------------
(* Requests of others.                                                     *)

endpointSendResponse(n, p, id, status) == outboundEnqueue(n, p, <<status, id>>)
sendResponse(n, p, id, status) == endpointSendResponse(connectIfNeeded(n, p), p, id, status)

\* Responders with nothing to send are dropped, until one sends; it stays until
\* it has sent its last response.
RECURSIVE checkResponders(_, _)
checkResponders(n, p) ==
    LET waiting == DOMAIN n.peer[p].responders
        id == Min(waiting)
        left == n.peer[p].responders[id]
        gone == [n EXCEPT !.peer[p].responders = Without(@, id), !.ended = @ \cup {<<p, id>>}]
    IN  IF waiting = {} THEN n
        ELSE IF left = 0 THEN checkResponders(gone, p)
        ELSE IF left = 1 THEN sendResponse(gone, p, id, "full")
        ELSE [sendResponse(n, p, id, "partial") EXCEPT !.peer[p].responders[id] = left - 1]

postBlocks(n, p, id, chunks) ==
    LET m == connectIfNeeded(n, p)
        kept == [m EXCEPT !.peer[p].responders = IF id \in DOMAIN @ THEN @ ELSE With(@, id, chunks)]
        posted == [kept EXCEPT !.posted = @ \cup {<<p, id>>}]
    IN  IF outboundEmpty(m.peer[p]) THEN checkResponders(posted, p) ELSE posted

\* GraphsyncImpl::onRemoteRequest and what its handlers do: refuse (-1), answer
\* at once (-2), or give a responder of so many responses.
onRemoteRequest(n, p, id, choice) ==
    IF ~n.handler \/ choice = -1 THEN sendResponse(n, p, id, "rejected")
    ELSE IF choice = -2 THEN sendResponse(n, p, id, "full")
    ELSE postBlocks(n, p, id, choice)

onRequest(n, p, r, choice) ==
    IF r.cancel THEN [n EXCEPT !.peer[p].remote = @ \ {r.id}]
    ELSE IF r.id \in n.peer[p].remote THEN sendResponse(n, p, r.id, "rejected")
    ELSE onRemoteRequest([n EXCEPT !.peer[p].remote = @ \cup {r.id}], p, r.id, choice)

\* A response to a request that is not waited for is passed on like any other;
\* when it is the last one, the set is asked to erase its end, which the
\* process does not survive.
onResponse(n, p, id, status) ==
    IF isTerminal(status) /\ id \notin n.peer[p].local THEN [n EXCEPT !.crashed = TRUE]
    ELSE graphsyncOnResponse([n EXCEPT !.peer[p].local = IF isTerminal(status) THEN @ \ {id} ELSE @],
                             id, status)

-----------------------------------------------------------------------------
(* The steps.                                                              *)

Running == ~gs.crashed
Happens == gsEvents < GsMaxEvents /\ gsEvents' = gsEvents + 1
Alive(p) == gs.peer[p].alive /\ ~gs.peer[p].closed

\* A component asks a peer for blocks.
makeRequest ==
    /\ Running /\ gs.made < GsMaxRequests
    /\ \E p \in GsPeers : gs' = makeRequestTo(gs, p)
    /\ UNCHANGED gsEvents

\* An unsubscription that leaves the callback in its map.
unsubscribeLate ==
    /\ Running
    /\ \E id \in gs.active \cup gs.rejected : gs' = [gs EXCEPT !.over = @ \cup {id}]
    /\ UNCHANGED gsEvents

\* The subscription goes out of scope.  The network knows no peer for any
\* request (active_requests_per_peer_ is never filled): no cancel is sent.
unsubscribe ==
    /\ Running
    /\ \E id \in gs.active \cup gs.rejected :
          gs' = [gs EXCEPT !.active = @ \ {id}, !.rejected = @ \ {id}, !.over = @ \cup {id}]
    /\ UNCHANGED gsEvents

\* The scheduler runs what asyncNotifyRejectedRequests gave it.
notifyRejected ==
    /\ Running /\ gs.notify > 0
    /\ gs' = [gs EXCEPT !.notify = @ - 1, !.rejected = {}, !.over = @ \cup gs.rejected,
                        !.called = @ \/ gs.rejected \cap gs.over # {}, !.nextRejected = 0]
    /\ UNCHANGED gsEvents

\* A stream is read from now on; the first one starts the cleanup timer.
onNewStream(n, p, s) ==
    [n EXCEPT !.peer[p].cleanups = IF n.peer[p].streams = {} /\ @ < 2 THEN @ + 1 ELSE @,
              !.peer[p].streams = @ \cup {s}]

\* The host answers newStream.
onStreamConnected ==
    /\ Running
    /\ \E p \in GsPeers, ok \in BOOLEAN :
          /\ gs.peer[p].alive /\ gs.peer[p].dialing
          /\ ok \/ GsDialFails
          /\ LET n == [gs EXCEPT !.peer[p].dialing = FALSE]
             IN  gs' = IF n.peer[p].closed THEN n
                       ELSE IF ~ok THEN (IF n.peer[p].end = "connecting" THEN closeLocalRequests(n, p) ELSE n)
                       ELSE onNewStream(onConnected(n, p), p, "out")
    /\ UNCHANGED gsEvents

\* A peer opens a stream.
onStreamAccepted ==
    /\ Running /\ gs.started /\ Happens
    /\ \E p \in GsPeers :
          LET n == findContext(gs, p, TRUE)
          IN  /\ "in" \notin n.peer[p].streams
              /\ gs' = onNewStream(n, p, "in")

\* A message or an error is read from a stream.
onReaderEvent ==
    /\ Running /\ Happens
    /\ \E p \in GsPeers : Alive(p) /\ \E s \in gs.peer[p].streams :
          \/ \E length \in 0 .. kMaxMessageSize + 1, got \in {0, 1} :
                lengthDelimited(length, got) # "message" /\ gs' = closeStream(gs, p, s)
          \/ \E m \in Messages(gs), choice \in {-1, -2} \cup GsChunks :
                LET n == IF m.complete THEN [gs EXCEPT !.peer[p].remote = {}] ELSE gs
                IN  IF ~parseMessage(m) THEN gs' = closeStream(gs, p, s)
                    ELSE \/ \E r \in m.requests : gs' = onRequest(n, p, r, choice)
                         \/ \E r \in m.responses :
                               gs.of[r.id] = p /\ gs' = onResponse(n, p, r.id, r.status)

\* A message has been written, or the stream has failed.
onWriterEvent ==
    /\ Running
    /\ \E p \in GsPeers :
          /\ Alive(p) /\ gs.peer[p].end = "connected" /\ gs.peer[p].buf # <<>>
          /\ \/ gs' = checkResponders(dequeue(gs, p), p) /\ UNCHANGED gsEvents
             \/ Happens /\ gs' = closeContext(gs, p)

\* The cleanup timer: a peer without streams is closed, idle inbound streams
\* are closed, and the timer is set again.
onStreamCleanupTimer ==
    /\ Running
    /\ \E p \in GsPeers :
          /\ gs.peer[p].alive /\ gs.peer[p].cleanups > 0
          /\ LET n == [gs EXCEPT !.peer[p].cleanups = @ - 1]
             IN  IF n.peer[p].closed THEN gs' = n
                 ELSE IF n.peer[p].streams = {} THEN gs' = closeContext(n, p)
                 ELSE /\ "in" \in n.peer[p].streams
                      /\ gs' = [closeStream(n, p, "in") EXCEPT !.peer[p].cleanups = @ + 1]
    /\ UNCHANGED gsEvents

\* Network::peerClosed, scheduled by close.
peerClosed ==
    /\ Running
    /\ \E p \in GsPeers :
          gs.peer[p].alive /\ gs.peer[p].closing /\ gs' = [gs EXCEPT !.peer[p] = NoContext]
    /\ UNCHANGED gsEvents

\* GraphsyncImpl::doStop: the peers are closed, then every callback is told.
RECURSIVE closeAllPeers(_, _)
closeAllPeers(n, ps) ==
    IF ps = {} THEN n
    ELSE LET p == CHOOSE p \in ps : TRUE
             m == IF n.peer[p].alive THEN [closeContext(n, p) EXCEPT !.peer[p] = NoContext] ELSE n
         IN  closeAllPeers(m, ps \ {p})
cancelAll(n) ==
    LET told == n.active \cup n.rejected
    IN  [n EXCEPT !.active = {}, !.rejected = {}, !.over = @ \cup told,
                  !.called = @ \/ told \cap n.over # {}]
stop ==
    /\ Running /\ gs.started
    /\ gs' = cancelAll(closeAllPeers([gs EXCEPT !.started = FALSE, !.handler = FALSE], GsPeers))
    /\ UNCHANGED gsEvents

GsNext ==
    \/ makeRequest \/ unsubscribe \/ notifyRejected \/ onStreamConnected \/ onStreamAccepted
    \/ onReaderEvent \/ onWriterEvent \/ onStreamCleanupTimer \/ peerClosed \/ stop
GsSpec == GsInit /\ [][GsNext]_gsVars

-----------------------------------------------------------------------------

GsTypeOK ==
    /\ gs.active \subseteq Ids /\ gs.rejected \subseteq Ids /\ gs.made \in 0 .. GsMaxRequests
    /\ \A p \in GsPeers : gs.peer[p].alive => gs.peer[p].end \in {"none", "connecting", "connected"}

\* The callback of a request never runs again after it has been told the end
\* or after its subscription was dropped, whatever responses arrive late and on
\* whichever stream; once the node is stopped none is left waiting; and a
\* responder is let go only after it has been told so (LocalRequests,
\* PeerContext::close, PeerContext::checkResponders).
GsCallbacks ==
    /\ ~gs.called
    /\ ~gs.started => gs.active = {}
    /\ \A r \in gs.posted \ gs.ended : gs.peer[r[1]].alive /\ r[2] \in DOMAIN gs.peer[r[1]].responders

\* What a request needs to be answered or told of its failure: a context that
\* is open, with its stream or a connection under way, and that knows of it.
\* "Enqueues new request to the peer. Errors are reported asynchronously"
\* (peer_context.hpp).
RequestsHaveAWay ==
    \A id \in gs.active :
        LET c == gs.peer[gs.of[id]]
        IN  gs.crashed \/ (c.alive /\ ~c.closed /\ id \in c.local /\ (c.dialing \/ c.end = "connected"))

-----------------------------------------------------------------------------
(***************************************************************************)
(* Data transfer's push (data_transfer/dt.cpp): the sender offers a root   *)
(* in a message, the receiver answers by asking graphsync for it, or with  *)
(* a rejection, and sends a last message when it has everything.  Messages *)
(* go each on a stream of their own, which a queue opens a few at a time;  *)
(* they may be lost or overtake each other.                                *)
(***************************************************************************)

CONSTANTS DtPushes,       \* how many pushes the sender starts
          DtBlocks,       \* how many blocks a root has
          kStreamOpenMax, \* streams open at once
          DtLoss,         \* whether messages and requests can fail
          DtMaxFaults     \* bound on failures

VARIABLES dt, dtFaults
dtVars == <<dt, dtFaults>>

Dtids == 1 .. DtPushes

(* A graphsync request of the receiver: waiting at the sender, served block *)
(* by block, answered.                                                     *)
DtInit ==
    /\ dt = [next |-> 1,
             pushing |-> Empty,      \* the sender's pushing_out: has it begun
             queue |-> <<>>,         \* StreamOpenQueue: messages waiting for a stream
             active |-> {},          \* messages on a stream
             request |-> Empty,      \* the receiver's graphsync requests
             got |-> Empty,          \* blocks received for each
             said |-> [d \in Dtids |-> <<>>],    \* the sender's callbacks
             heard |-> [d \in Dtids |-> <<>>],   \* the receiver's on_end
             torn |-> FALSE]         \* a responder touched a push that is gone
    /\ dtFaults = 0

-----------------------------------------------------------------------------
(* StreamOpenQueue.                                                        *)

\* check: waiting messages get a stream while there are fewer than the most.
RECURSIVE openStreams(_)
openStreams(d) ==
    IF d.queue = <<>> \/ Cardinality(d.active) >= kStreamOpenMax THEN d
    ELSE openStreams([d EXCEPT !.queue = Tail(@), !.active = @ \cup {Head(d.queue)}])
dtSend(d, msg) == openStreams([d EXCEPT !.queue = Append(@, msg)])
\* A stream that ends without a look at the queue.
closeStreamIdle(d, msg) == [d EXCEPT !.active = @ \ {msg}]
\* A stream that ends leaves its place to the next.
dtCloseStream(d, msg) == openStreams([d EXCEPT !.active = @ \ {msg}])

-----------------------------------------------------------------------------
(* The sender.                                                             *)

say(d, id, what) == [d EXCEPT !.said[id] = Append(@, what)]
forget(d, id) == [d EXCEPT !.pushing = Without(@, id)]

push(d) ==
    LET id == d.next
    IN  dtSend([d EXCEPT !.next = id + 1, !.pushing = With(@, id, FALSE)],
               [kind |-> "push", id |-> id])

\* An end that leaves the push in its map.
onResponseKeeping(d, id) ==
    IF id \notin DOMAIN d.pushing THEN d
    ELSE say(d, id, IF d.pushing[id] THEN "end ok" ELSE "begin no")

\* onMsg of a response: before the receiver has begun it is a refusal, after
\* that the end.
dtOnResponse(d, id) ==
    IF id \notin DOMAIN d.pushing THEN d
    ELSE forget(say(d, id, IF d.pushing[id] THEN "end ok" ELSE "begin no"), id)

\* The graphsync request of a receiver that accepts.
onGraphsyncRequest(d, id) ==
    IF id \notin DOMAIN d.pushing THEN [d EXCEPT !.request[id] = "rejected"]
    ELSE IF ~d.pushing[id]
    THEN [say(d, id, "begin ok") EXCEPT !.pushing[id] = TRUE, !.request[id] = "serving"]
    ELSE [forget(say(d, id, "end no"), id) EXCEPT !.request[id] = "rejected"]

\* The responder: it holds a reference into pushing_out.
responder(d, id, wanted, found) ==
    IF id \notin DOMAIN d.pushing THEN [d EXCEPT !.torn = TRUE]
    ELSE IF wanted /\ d.got[id] = DtBlocks THEN [d EXCEPT !.request[id] = "full"]
    ELSE IF wanted /\ found THEN [d EXCEPT !.got[id] = @ + 1]
    ELSE [forget(say(d, id, "end no"), id) EXCEPT !.request[id] = IF wanted THEN "rejected" ELSE @]

-----------------------------------------------------------------------------
(* The receiver.                                                           *)

acceptPush(d, id) == [d EXCEPT !.request = With(@, id, "asked"), !.got = With(@, id, 0)]
rejectPush(d, id) == dtSend(d, [kind |-> "response", id |-> id])

\* The callback of acceptPush's request, when it has ended.
onRequestEnd(d, id, ok) ==
    LET told == [d EXCEPT !.heard[id] = Append(@, ok), !.request = Without(@, id)]
    IN  IF ok THEN dtSend(told, [kind |-> "response", id |-> id]) ELSE told

-----------------------------------------------------------------------------

Fault == DtLoss /\ dtFaults < DtMaxFaults /\ dtFaults' = dtFaults + 1

Push == dt.next <= DtPushes /\ dt' = push(dt) /\ UNCHANGED dtFaults

\* A message is read: _read and onMsg.
MessageArrives ==
    /\ \E m \in dt.active :
          LET d == dtCloseStream(dt, m)
          IN  IF m.kind = "response" THEN dt' = dtOnResponse(d, m.id)
              ELSE dt' \in {acceptPush(d, m.id), rejectPush(d, m.id)}
    /\ UNCHANGED dtFaults

\* A stream that does not open drops its message.
MessageLost == Fault /\ \E m \in dt.active : dt' = dtCloseStream(dt, m)

RequestArrives ==
    /\ \E id \in DOMAIN dt.request : dt.request[id] = "asked" /\ dt' = onGraphsyncRequest(dt, id)
    /\ UNCHANGED dtFaults

ResponderRuns ==
    \E id \in DOMAIN dt.request, found \in BOOLEAN :
        /\ dt.request[id] = "serving"
        /\ IF found THEN UNCHANGED dtFaults ELSE Fault
        /\ dt' = responder(dt, id, TRUE, found)

RequestEnds ==
    /\ \E id \in DOMAIN dt.request :
          dt.request[id] \in {"full", "rejected"} /\ dt' = onRequestEnd(dt, id, dt.request[id] = "full")
    /\ UNCHANGED dtFaults

\* The connection fails: the sender's context closes, its responders are told,
\* and the receiver's request ends with an error.
RequestFails ==
    /\ Fault
    /\ \E id \in DOMAIN dt.request :
          LET served == IF dt.request[id] = "serving" THEN responder(dt, id, FALSE, FALSE) ELSE dt
          IN  dt' = onRequestEnd(served, id, FALSE)

DtNext ==
    \/ Push \/ MessageArrives \/ MessageLost \/ RequestArrives \/ ResponderRuns \/ RequestEnds
    \/ RequestFails
DtSpec == DtInit /\ [][DtNext]_dtVars

-----------------------------------------------------------------------------

DtTypeOK ==
    /\ dt.next \in 1 .. DtPushes + 1 /\ DOMAIN dt.pushing \subseteq Dtids
    /\ Cardinality(dt.active) <= kStreamOpenMax

\* A push is begun once and ended once, in that order and never after a
\* refusal; its end is good only when the receiver has had a good end, which it
\* has only with every block; no responder outlives its push; and when nothing
\* is on its way and nothing has failed, everyone has been told (push,
\* acceptPush, onMsg and the request handler of DataTransfer::make).
EndsAgree ==
    /\ ~dt.torn
    /\ \A id \in Dtids :
          /\ dt.said[id] \in {<<>>, <<"begin no">>, <<"begin ok">>,
                              <<"begin ok", "end ok">>, <<"begin ok", "end no">>}
          /\ Len(dt.heard[id]) <= 1
          /\ (Len(dt.said[id]) = 2 /\ dt.said[id][2] = "end ok") => dt.heard[id] = <<TRUE>>
          /\ dt.heard[id] = <<TRUE>> => dt.got[id] = DtBlocks
    /\ (dt.active = {} /\ DOMAIN dt.request = {} /\ dtFaults = 0)
          => dt.queue = <<>> /\ DOMAIN dt.pushing = {}

(***************************************************************************)
(* The callbacks of graphsync and the two ends of a data transfer agree    *)
(* (GraphsyncImpl, DataTransfer).                                          *)
(***************************************************************************)
TransfersAgree == GsCallbacks /\ EndsAgree
=============================================================================
