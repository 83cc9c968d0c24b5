----------------------------- MODULE AppSession -----------------------------
(***************************************************************************)
(* A client's session with the Thymio Device Manager (application_endpoint *)
(* in app_endpoint.h): the handshake, the queue of outgoing messages, the  *)
(* status changes of nodes that arrive at any time, the pings, and how the *)
(* session ends.  The session object is kept alive by the handlers that    *)
(* are waiting for something; the last of them to run destroys it, and     *)
(* with it the locks of the client.                                        *)
(***************************************************************************)
EXTENDS Naturals, Sequences, Functions

CONSTANTS
  MaxChanges,    \* bound on the status changes of nodes
  MaxRequests,   \* bound on the requests of the client
  MaxPings       \* bound on the pings

ASSUME SessionAssumption == MaxChanges \in Nat /\ MaxRequests \in Nat /\ MaxPings \in Nat

VARIABLES
  version,    \* m_protocol_version, 0 until the handshake
  out,        \* m_queue, and the number of writes in progress
  reading,    \* what the read in progress waits for
  posted,     \* do_node_changed handlers queued on the strand
  timer,      \* m_pings_timer is armed
  client,     \* the client's end of the connection: "open" or "closed"
  received,   \* what the client received
  early,      \* history: a message was queued before the handshake was handled
  used        \* how much of the bounds is used

vars == <<version, out, reading, posted, timer, client, received, early, used>>

Tags == {"handshake", "changed", "answer", "ping"}

\* Handlers of reads, of writes and of status changes hold a shared_ptr to the session;
\* the one of the ping timer holds a weak_ptr.  Left out: the callback of a firmware
\* upgrade, which holds one until the upgrade ends.
Alive == reading # "nothing" \/ out.writing > 0 \/ posted > 0

-----------------------------------------------------------------------------
\* Mutant: a write is started although another is in progress.
WrittenAtOnce(o, v, tag) ==
  [queue |-> Append(o.queue, tag), writing |-> IF v = 0 THEN o.writing ELSE o.writing + 1]

\* Mutant: messages are written before the handshake.
WrittenEarly(o, v, tag) ==
  [queue |-> Append(o.queue, tag), writing |-> IF Len(o.queue) + 1 > 1 THEN o.writing ELSE o.writing + 1]

\* write_message: nothing is started if the queue was not empty, whether or not the
\* message at its front is being written.
Written(o, v, tag) ==
  [queue |-> Append(o.queue, tag),
   writing |-> IF Len(o.queue) + 1 > 1 \/ v = 0 THEN o.writing ELSE o.writing + 1]

\* The message at the front is sent, or lost if the client has gone: handle_write takes
\* no notice of an error.
HandleWrite ==
  /\ out.writing > 0
  /\ LET rest == Tail(out.queue)
     IN  out' = [queue |-> rest, writing |-> out.writing - 1 + (IF rest # <<>> THEN 1 ELSE 0)]
  /\ received' = IF client = "open" THEN Append(received, Head(out.queue)) ELSE received
  /\ UNCHANGED <<version, reading, posted, timer, client, early, used>>

-----------------------------------------------------------------------------
\* The registry signals a change: node_changed posts it.
NodeChanged ==
  /\ Alive /\ used.changes < MaxChanges
  /\ used' = [used EXCEPT !.changes = @ + 1]
  /\ posted' = posted + 1
  /\ UNCHANGED <<version, out, reading, timer, client, received, early>>

DoNodeChanged ==
  /\ posted > 0
  /\ posted' = posted - 1
  /\ out' = Written(out, version, "changed")
  /\ UNCHANGED <<version, reading, timer, client, received, early, used>>

-----------------------------------------------------------------------------
\* Mutant: the reply is written before the version is agreed upon.
GreetedFirst(o) == Written(Written(o, 0, "handshake"), 1, "changed")

\* The reply, then the list of all nodes.
Greeted(o) == Written(Written(o, 1, "handshake"), 1, "changed")

\* The client sent a ConnectionHandshake of a version the server knows; it is on the
\* server's network or gave its password.
HandleHandshake ==
  /\ reading = "handshake" /\ client = "open"
  /\ version' = 1
  /\ out' = Greeted(out)
  /\ early' = (out.queue # <<>>)
  /\ timer' = TRUE
  /\ reading' = "request"
  /\ UNCHANGED <<posted, client, received, used>>

\* ... without the password, or with a wrong one: the version is agreed upon by then, but
\* nothing is answered or read any more.
HandleRefused ==
  /\ reading = "handshake" /\ client = "open"
  /\ version' = 1
  /\ reading' = "nothing"
  /\ UNCHANGED <<out, posted, timer, client, received, early, used>>

\* ... of another version: the reply that says so is queued, and nothing is read any more.
HandleIncompatible ==
  /\ reading = "handshake" /\ client = "open"
  /\ out' = Written(out, version, "handshake")
  /\ reading' = "nothing"
  /\ UNCHANGED <<version, posted, timer, client, received, early, used>>

\* ... or something else.
HandleIntruder ==
  /\ reading = "handshake" /\ client = "open"
  /\ reading' = "nothing"
  /\ UNCHANGED <<version, out, posted, timer, client, received, early, used>>

\* Mutant: an error does not end the reads.
AfterErrorAgain == reading

AfterError == "nothing"

\* The read fails once the client has gone.
HandleReadError ==
  /\ reading # "nothing" /\ client = "closed"
  /\ reading' = AfterError
  /\ UNCHANGED <<version, out, posted, timer, client, received, early, used>>

\* A request that is answered at once; the next read is started first.
HandleRead ==
  /\ reading = "request" /\ client = "open" /\ used.requests < MaxRequests
  /\ used' = [used EXCEPT !.requests = @ + 1]
  /\ out' = Written(out, version, "answer")
  /\ UNCHANGED <<version, reading, posted, timer, client, received, early>>

SendPing ==
  /\ timer /\ Alive /\ used.pings < MaxPings
  /\ used' = [used EXCEPT !.pings = @ + 1]
  /\ out' = Written(out, version, "ping")
  /\ UNCHANGED <<version, reading, posted, timer, client, received, early>>

CloseClient ==
  /\ client = "open"
  /\ client' = "closed"
  /\ UNCHANGED <<version, out, reading, posted, timer, received, early, used>>

-----------------------------------------------------------------------------
\* on_initialized
Init ==
  /\ version = 0 /\ reading = "handshake" /\ posted = 0 /\ timer = FALSE
  /\ out = [queue |-> <<>>, writing |-> 0]
  /\ client = "open" /\ received = <<>> /\ early = FALSE
  /\ used = [changes |-> 0, requests |-> 0, pings |-> 0]

Next ==
  \/ HandleWrite \/ NodeChanged \/ DoNodeChanged
  \/ HandleHandshake \/ HandleRefused \/ HandleIncompatible \/ HandleIntruder
  \/ HandleReadError \/ HandleRead \/ SendPing \/ CloseClient

Spec == Init /\ [][Next]_vars

\* What is queued on the strand is run, and writes and failing reads come to an end.
FairSpec ==
  Spec /\ WF_vars(HandleWrite) /\ WF_vars(DoNodeChanged) /\ WF_vars(HandleReadError)

-----------------------------------------------------------------------------
(* Properties *)

\* At most one write is in progress: the stream would be garbled otherwise.
TypeOK ==
  /\ version \in 0..1 /\ posted \in Nat
  /\ timer \in BOOLEAN /\ early \in BOOLEAN /\ client \in {"open", "closed"}
  /\ out \in [queue : Seq(Tags), writing : 0..1]
  /\ reading \in {"handshake", "request", "nothing"}
  /\ received \in Seq(Tags)
  /\ used \in [changes : 0..MaxChanges, requests : 0..MaxRequests, pings : 0..MaxPings]

\* The handshake was accepted: only then are pings sent.
Accepted == timer

\* "The server reply with the same message" (thymio.fbs): whatever changes meanwhile,
\* the first thing a client hears is the reply to its handshake, if it is accepted.  A
\* client that is not may hear of the changes that were on their way, and nothing else.
HandshakeFirst ==
  received # <<>> => IF Accepted THEN received[1] = "handshake"
                     ELSE Range(received) \subseteq {"changed"}

\* Why it is so, for every bound: nothing is written before the handshake is handled,
\* and what is written first after it is the reply, unless a message was there before it;
\* then nothing is written at all.  A client that is refused leaves a queue of changes.
IInv ==
  /\ TypeOK
  /\ version = 0 => out.writing = 0 /\ received = <<>>
  /\ out.writing = 1 => out.queue # <<>>
  /\ (client = "open" /\ received = <<>> /\ Accepted) => out.queue # <<>>
  /\ (client = "open" /\ received = <<>> /\ Accepted /\ out.writing = 1)
        => Head(out.queue) = "handshake"
  /\ reading = "handshake" => version = 0 /\ ~Accepted
  /\ reading = "request" => Accepted
  /\ (~Accepted /\ (version = 1 \/ reading = "handshake"))
        => /\ out.queue \in Seq({"changed"})
           /\ received \in Seq({"changed"})
  /\ HandshakeFirst

\* A client whose handshake was accepted before anything else was queued hears the reply,
\* unless it leaves.
HandshakeAnswered == (Accepted /\ ~early) ~> (received # <<>> \/ client = "closed")

\* A client that leaves, in the handshake, in the middle of a write or with its queue
\* full, does not leave its session behind: the destructor runs, and gives back its locks.
SessionEnds == (client = "closed") ~> [](~Alive)

\* "Once the handshake is complete, send a list of nodes, that will also flush out all
\* pending outgoing messages" (app_endpoint.h): after the handshake what is queued is
\* being written.
Flushed == (Accepted /\ out.queue # <<>>) => out.writing = 1
=============================================================================
