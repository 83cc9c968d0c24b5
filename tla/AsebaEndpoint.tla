--------------------------- MODULE AsebaEndpoint ---------------------------
(***************************************************************************)
(* The queue of outgoing messages of a device in the Thymio Device Manager *)
(* (aseba_endpoint.h): callers hand over batches of messages, one          *)
(* asynchronous write is in progress at a time, and its completion handler *)
(* starts the next.  All handlers run on the endpoint's strand.            *)
(***************************************************************************)
EXTENDS Naturals, Sequences, SequencesExt

CONSTANTS
  Batches,    \* the calls of write_messages
  BatchSize   \* number of messages of each call

ASSUME BatchAssumption == BatchSize \in [Batches -> Nat]

VARIABLES
  queue,      \* m_msg_queue
  writing,    \* asynchronous writes in progress
  upgrading,  \* m_upgrading_firmware
  calls,      \* history: the calls made, in order
  wire,       \* history: the messages written, in order
  failed,     \* history: the calls that lost a message to a write error
  called      \* history: the calls whose callback was posted

vars == <<queue, writing, upgrading, calls, wire, failed, called>>

Entry(b, k, cb) == [batch |-> b, part |-> k, cb |-> cb]

Entries == [batch : Batches, part : Nat \ {0}, cb : BOOLEAN]

\* Mutant: the messages are numbered from zero.
InsertedFromZero(b) == [i \in 1..BatchSize[b] |-> Entry(b, BatchSize[b] - i, i = 1)]

\* Mutant: the last message of the call is inserted each time.
InsertedAgain(b) == [i \in 1..BatchSize[b] |-> Entry(b, BatchSize[b], i = 1)]

\* Each message is inserted before the one inserted last, and the callback is
\* attached to the message inserted last: the batch is reversed.
Inserted(b) == [i \in 1..BatchSize[b] |-> Entry(b, BatchSize[b] + 1 - i, i = 1)]

\* Mutant: the search for an insertion point begins at the front.
QueuedFirst(q, new) == new \o q

\* The search for an insertion point stops where it begins, at the end.
Queued(q, new) == q \o new

\* Mutant: a write is started whether or not one is in progress.
StartsAlways(q, n) == TRUE

\* write_messages starts to write if the queue was empty before.
Starts(q, n) == ~(Len(q) > n)

\* The writes that write_next starts.
WriteNext(q) == IF q # <<>> /\ ~upgrading THEN 1 ELSE 0

WriteMessages(b) ==
  /\ b \notin Range(calls)
  /\ calls' = Append(calls, b)
  /\ IF BatchSize[b] = 0
     THEN UNCHANGED <<queue, writing>>
     ELSE /\ queue' = Queued(queue, Inserted(b))
          /\ writing' = writing + (IF Starts(queue', BatchSize[b]) THEN WriteNext(queue') ELSE 0)
  /\ UNCHANGED <<upgrading, wire, failed, called>>

\* Mutant: the queue is left waiting once a write is done.
ContinueNot(q) == 0

\* After a write the next one is started.
Continue(q) == WriteNext(q)

\* handle_write, of a write that succeeded.
HandleWrite ==
  /\ writing > 0 /\ queue # <<>>
  /\ wire' = Append(wire, <<Head(queue).batch, Head(queue).part>>)
  /\ called' = IF Head(queue).cb THEN called \cup {Head(queue).batch} ELSE called
  /\ queue' = Tail(queue)
  /\ writing' = writing - 1 + Continue(queue')
  /\ UNCHANGED <<upgrading, calls, failed>>

\* handle_write, of a write that failed or was cancelled: no callback is called.
HandleWriteError ==
  /\ writing > 0 /\ queue # <<>>
  /\ queue' = <<>>
  /\ writing' = writing - 1
  /\ failed' = failed \cup {queue[i].batch : i \in DOMAIN queue}
  /\ UNCHANGED <<upgrading, calls, wire, called>>

\* The flag is never reset: the endpoint does not survive the upgrade.
UpgradeFirmware ==
  /\ ~upgrading
  /\ upgrading' = TRUE
  /\ UNCHANGED <<queue, writing, calls, wire, failed, called>>

Init ==
  /\ queue = <<>> /\ writing = 0 /\ upgrading = FALSE
  /\ calls = <<>> /\ wire = <<>> /\ failed = {} /\ called = {}

Next ==
  \/ \E b \in Batches : WriteMessages(b)
  \/ HandleWrite \/ HandleWriteError
  \/ UpgradeFirmware

Spec == Init /\ [][Next]_vars

\* A write in progress is completed, one way or the other.
FairSpec == Spec /\ WF_vars(HandleWrite \/ HandleWriteError)

-----------------------------------------------------------------------------
TypeOK ==
  /\ queue \in Seq(Entries)
  /\ writing \in Nat
  /\ upgrading \in BOOLEAN
  /\ calls \in Seq(Batches)
  /\ wire \in Seq(Batches \X (Nat \ {0}))
  /\ failed \subseteq Batches
  /\ called \subseteq Batches

\* Two writes are never in progress on the same stream, whose bytes they would mix,
\* and the one in progress is that of the front of the queue (write_messages inserts
\* behind it, handle_write removes it).
OneWriteAtATime == writing <= 1 /\ (writing = 1 => queue # <<>>)

\* A queue that is not empty is being written: no order of calls, completions and
\* errors leaves messages behind that nobody will send.
NeverStalled == (queue # <<>> /\ ~upgrading) => writing = 1

\* Position of a call in the order of the calls.
Turn(b) == CHOOSE i \in DOMAIN calls : calls[i] = b

\* The messages of two calls are neither mixed nor reordered on the wire.  A callback is
\* invoked when the first message of its call is written, before the others are, but nothing
\* of an earlier call is left behind: a client told that Run was sent may rely on the program
\* it sent before.
BatchesInOrder ==
  /\ \A i, j \in DOMAIN wire : i < j => Turn(wire[i][1]) <= Turn(wire[j][1])
  /\ \A b \in called, i \in DOMAIN queue : Turn(b) <= Turn(queue[i].batch)

\* Whether all messages of a call were written.
Written(b) == \A k \in 1..BatchSize[b] : <<b, k>> \in Range(wire)

\* Every message of every call is written, unless a write fails or the firmware is
\* being upgraded.
AllWritten ==
  \A b \in Batches : (b \in Range(calls)) ~> (Written(b) \/ b \in failed \/ upgrading)
=============================================================================
