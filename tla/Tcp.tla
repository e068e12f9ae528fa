-------------------------------- MODULE Tcp --------------------------------
(***************************************************************************)
(* The kernel's TCP interface (src/kernel/src/tcp_interface.rs): TcpState  *)
(* receives the program's Open, Close, Read and Write messages through     *)
(* handle_message and answers them from next_event, which polls every      *)
(* connection with select_all.  The program sending the messages and the   *)
(* network under each TcpStream are the environment.                       *)
(*                                                                         *)
(* Message (event) ids are 1, 2, ... in the order the program sends        *)
(* requests; 0 stands for None.  A write's payload is its length in bytes. *)
(***************************************************************************)
EXTENDS Integers, Sequences, SequencesExt, FiniteSets

CONSTANTS
    SocketIdBits,    \* width of next_socket_id (u32 in the code)
    MaxEvents,       \* bound on the requests the program sends
    MaxLen,          \* bound on a write's length
    ClientChecked,   \* the program only sends requests valid for what it was told
    ConnectMayFail,  \* TcpStream::connect may resolve to an error
    IoErrors         \* poll_write and poll_read may return an io::Error

ASSUME SocketIdBits \in Nat \ {0} /\ MaxEvents \in Nat /\ MaxLen \in Nat
ASSUME {ClientChecked, ConnectMayFail, IoErrors} \subseteq BOOLEAN

SocketIds == 0..(2^SocketIdBits - 1)
Events == 1..MaxEvents
None == 0

VARIABLES
    nextSocketId, \* TcpState::next_socket_id
    sockets,      \* TcpState::sockets: socket id -> TcpConnec and its stream
    requests,     \* every request sent, indexed by its event id
    answers,      \* every TcpResponse returned by next_event, in order
    written,      \* bytes of each write request accepted by poll_write
    clientOpen,   \* the program's view: socket id -> the Open that returned it
    panicked      \* the kernel panicked

vars == <<nextSocketId, sockets, requests, answers, written, clientOpen,
          panicked>>

\* A TcpConnec: Connecting(id, event_id, _) is st = "connecting" with openEv;
\* Socket { pending_read, pending_write } has pr, pw and the bytes left of the
\* pending write; Poisoned is st = "poisoned".  peerData and window are the
\* network: the peer has sent data, the peer accepts more of ours.
Connec == [st : {"connecting", "socket", "poisoned"}, openEv : Events,
           pr : Events \cup {None}, pw : Events \cup {None}, left : 0..MaxLen,
           peerData : BOOLEAN, window : BOOLEAN]

Request == [kind : {"open", "read", "write"}, sock : SocketIds, len : 0..MaxLen]
Answer == [ev : Events, kind : {"open", "read", "write"}, ok : BOOLEAN,
           sock : SocketIds]

TypeOK ==
    /\ nextSocketId \in SocketIds
    /\ \E D \in SUBSET SocketIds : sockets \in [D -> Connec]
    /\ requests \in Seq(Request) /\ Len(requests) <= MaxEvents
    /\ answers \in Seq(Answer)
    /\ written \in [Events -> 0..MaxLen]
    /\ \E D \in SUBSET SocketIds : clientOpen \in [D -> Events]
    /\ panicked \in BOOLEAN

Init ==
    /\ nextSocketId = 1
    /\ sockets = <<>>
    /\ requests = <<>>
    /\ answers = <<>>
    /\ written = [e \in Events |-> 0]
    /\ clientOpen = <<>>
    /\ panicked = FALSE

\* The map with entry s set to c (HashMap::insert replaces an existing one).
Insert(m, s, c) == [x \in DOMAIN m \cup {s} |-> IF x = s THEN c ELSE m[x]]

\* The map without entry s.
Delete(m, s) == [x \in DOMAIN m \ {s} |-> m[x]]

Panic ==
    /\ panicked' = TRUE
    /\ UNCHANGED <<nextSocketId, sockets, answers, written, clientOpen>>

\* Requests on socket s the program has sent and not yet seen answered.
Outstanding(s) ==
    {e \in DOMAIN requests :
        /\ requests[e].sock = s /\ requests[e].kind # "open"
        /\ \A i \in DOMAIN answers : answers[i].ev # e}

\* next_event returns the response for event e.
Respond(e, kind, ok, s) ==
    answers' = Append(answers, [ev |-> e, kind |-> kind, ok |-> ok, sock |-> s])

-----------------------------------------------------------------------------
(* handle_message: the program's requests.                                 *)

\* The program may send a request for socket s: any socket id, or, when it
\* follows the protocol, one it was told is open.
MayUse(s) == ~ClientChecked \/ s \in DOMAIN clientOpen

\* Open: the socket id is next_socket_id, which is then incremented; the
\* increment wraps at the width in a release build and panics in a debug
\* build.  The connection is inserted as Connecting, replacing any entry
\* with that id.
Open ==
    /\ Len(requests) < MaxEvents
    /\ LET e == Len(requests) + 1
           s == nextSocketId
           wraps == s + 1 = 2^SocketIdBits
       IN  /\ requests' = Append(requests, [kind |-> "open", sock |-> s, len |-> 0])
           /\ \/ /\ nextSocketId' = (s + 1) % 2^SocketIdBits
                 /\ sockets' = Insert(sockets, s,
                        [st |-> "connecting", openEv |-> e, pr |-> None,
                         pw |-> None, left |-> 0, peerData |-> FALSE,
                         window |-> FALSE])
                 /\ UNCHANGED <<answers, written, clientOpen, panicked>>
              \/ wraps /\ Panic

\* Close: the entry is removed if there is one; no answer is sent.
Close(s) ==
    /\ MayUse(s)
    /\ ClientChecked => Outstanding(s) = {}
    /\ s \in DOMAIN sockets \/ s \in DOMAIN clientOpen
    /\ sockets' = Delete(sockets, s)
    /\ clientOpen' = Delete(clientOpen, s)
    /\ UNCHANGED <<nextSocketId, requests, answers, written, panicked>>

\* Read and Write: get_mut(..).unwrap() panics on an unknown socket,
\* start_read and start_write panic unless it is a Socket, and assert that
\* no read (write) is pending.
StartRequest(s, kind, field, len) ==
    /\ Len(requests) < MaxEvents
    /\ MayUse(s)
    /\ ClientChecked => \A e \in Outstanding(s) : requests[e].kind # kind
    /\ requests' = Append(requests, [kind |-> kind, sock |-> s, len |-> len])
    /\ IF /\ s \in DOMAIN sockets
          /\ sockets[s].st = "socket"
          /\ sockets[s][field] = None
         THEN /\ sockets' = [sockets EXCEPT ![s][field] = Len(requests) + 1,
                                            ![s].left = IF field = "pw" THEN len ELSE @]
              /\ UNCHANGED <<nextSocketId, answers, written, clientOpen, panicked>>
         ELSE Panic

Read(s) == StartRequest(s, "read", "pr", 0)

Write(s, len) == StartRequest(s, "write", "pw", len)

-----------------------------------------------------------------------------
(* next_event: select_all polls the connections in the map's order and     *)
(* returns the first response; a poll that changes nothing is a stutter.   *)

\* Mutant: a failed connect is removed from the map without an answer.
PollConnectDropsFailed(s, ok) ==
    /\ s \in DOMAIN sockets /\ sockets[s].st = "connecting"
    /\ ok \in IF ConnectMayFail THEN BOOLEAN ELSE {TRUE}
    /\ IF ok
         THEN /\ sockets' = [sockets EXCEPT ![s].st = "socket"]
              /\ Respond(sockets[s].openEv, "open", TRUE, s)
              /\ clientOpen' = Insert(clientOpen, s, sockets[s].openEv)
         ELSE /\ sockets' = Delete(sockets, s)
              /\ UNCHANGED <<answers, clientOpen>>
    /\ UNCHANGED <<nextSocketId, requests, written, panicked>>

\* Connecting: the connect future resolved.  Ok makes a Socket and answers
\* Ok(id); Err leaves Poisoned in the map and answers Err.
PollConnect(s, ok) ==
    /\ s \in DOMAIN sockets /\ sockets[s].st = "connecting"
    /\ ok \in IF ConnectMayFail THEN BOOLEAN ELSE {TRUE}
    /\ sockets' = [sockets EXCEPT ![s].st = IF ok THEN "socket" ELSE "poisoned"]
    /\ Respond(sockets[s].openEv, "open", ok, s)
    /\ clientOpen' = IF ok THEN Insert(clientOpen, s, sockets[s].openEv)
                           ELSE clientOpen
    /\ UNCHANGED <<nextSocketId, requests, written, panicked>>

\* Poisoned => panic!().
PollPoisoned(s) ==
    /\ s \in DOMAIN sockets /\ sockets[s].st = "poisoned"
    /\ Panic /\ UNCHANGED requests

\* A pending write whose remaining bytes are all accepted (or that has none
\* left) is flushed and answered.
WriteDone(s) ==
    /\ s \in DOMAIN sockets /\ sockets[s].st = "socket"
    /\ sockets[s].pw # None
    /\ sockets[s].left = 0 \/ sockets[s].window
    /\ written' = [written EXCEPT ![sockets[s].pw] = @ + sockets[s].left]
    /\ sockets' = [sockets EXCEPT ![s].pw = None, ![s].left = 0]
    /\ Respond(sockets[s].pw, "write", TRUE, s)
    /\ UNCHANGED <<nextSocketId, requests, clientOpen, panicked>>

\* The pending read's data is returned.
ReadReady(c) == c.pr # None /\ c.peerData

\* Mutant: a partially written payload is answered as written.
WritePartialAnswers(s, n) ==
    /\ s \in DOMAIN sockets /\ sockets[s].st = "socket"
    /\ sockets[s].pw # None /\ sockets[s].window
    /\ n \in 1..(sockets[s].left - 1)
    /\ written' = [written EXCEPT ![sockets[s].pw] = @ + n]
    /\ sockets' = [sockets EXCEPT ![s].left = @ - n, ![s].pw = None]
    /\ Respond(sockets[s].pw, "write", TRUE, s)
    /\ UNCHANGED <<nextSocketId, requests, clientOpen, panicked>>

\* poll_write accepted n of the remaining bytes but not all: the write is
\* not finished, so the pending read is polled in the same poll.
WritePartial(s, n) ==
    /\ s \in DOMAIN sockets /\ sockets[s].st = "socket"
    /\ sockets[s].pw # None /\ sockets[s].window
    /\ n \in 1..(sockets[s].left - 1)
    /\ written' = [written EXCEPT ![sockets[s].pw] = @ + n]
    /\ IF ReadReady(sockets[s])
         THEN /\ sockets' = [sockets EXCEPT ![s].left = @ - n, ![s].pr = None,
                                            ![s].peerData = FALSE]
              /\ Respond(sockets[s].pr, "read", TRUE, s)
         ELSE /\ sockets' = [sockets EXCEPT ![s].left = @ - n]
              /\ UNCHANGED answers
    /\ UNCHANGED <<nextSocketId, requests, clientOpen, panicked>>

\* Mutant: pending_read is not cleared once answered.
ReadOnlyKeepsPending(s) ==
    /\ s \in DOMAIN sockets /\ sockets[s].st = "socket"
    /\ sockets[s].pw = None /\ ReadReady(sockets[s])
    /\ sockets' = [sockets EXCEPT ![s].peerData = FALSE]
    /\ Respond(sockets[s].pr, "read", TRUE, s)
    /\ UNCHANGED <<nextSocketId, requests, written, clientOpen, panicked>>

\* No write pending: the pending read is answered once data is there.
ReadOnly(s) ==
    /\ s \in DOMAIN sockets /\ sockets[s].st = "socket"
    /\ sockets[s].pw = None /\ ReadReady(sockets[s])
    /\ sockets' = [sockets EXCEPT ![s].pr = None, ![s].peerData = FALSE]
    /\ Respond(sockets[s].pr, "read", TRUE, s)
    /\ UNCHANGED <<nextSocketId, requests, written, clientOpen, panicked>>

\* poll_write, poll_flush or poll_read returns an io::Error: unwrap panics.
IoError(s) ==
    /\ IoErrors
    /\ s \in DOMAIN sockets /\ sockets[s].st = "socket"
    /\ sockets[s].pw # None \/ sockets[s].pr # None
    /\ Panic /\ UNCHANGED requests

-----------------------------------------------------------------------------
(* The network.                                                            *)

PeerSends(s) ==
    /\ s \in DOMAIN sockets /\ sockets[s].st = "socket" /\ ~sockets[s].peerData
    /\ sockets' = [sockets EXCEPT ![s].peerData = TRUE]
    /\ UNCHANGED <<nextSocketId, requests, answers, written, clientOpen, panicked>>

PeerOpensWindow(s) ==
    /\ s \in DOMAIN sockets /\ sockets[s].st = "socket" /\ ~sockets[s].window
    /\ sockets' = [sockets EXCEPT ![s].window = TRUE]
    /\ UNCHANGED <<nextSocketId, requests, answers, written, clientOpen, panicked>>

-----------------------------------------------------------------------------

\* next_event: pending while the map is empty; otherwise select_all polls
\* the connection futures and a step is one of them making progress.
NextEvent(s) ==
    /\ s \in DOMAIN sockets
    /\ \/ \E ok \in BOOLEAN : PollConnect(s, ok)
       \/ PollPoisoned(s) \/ WriteDone(s) \/ ReadOnly(s) \/ IoError(s)
       \/ \E n \in 1..MaxLen : WritePartial(s, n)

Next ==
    /\ ~panicked
    /\ \/ Open
       \/ \E s \in SocketIds :
            \/ Close(s) \/ Read(s) \/ \E len \in 0..MaxLen : Write(s, len)
            \/ NextEvent(s)
            \/ PeerSends(s) \/ PeerOpensWindow(s)

Spec == Init /\ [][Next]_vars

\* The kernel keeps polling next_event, and select_all polls every
\* connection; a connect resolves, at the latest by the OS timeout.  The
\* peer is not assumed to read or to send.
Fairness ==
    \A s \in SocketIds :
        /\ WF_vars(\E ok \in BOOLEAN : PollConnect(s, ok))
        /\ WF_vars(PollPoisoned(s)) /\ WF_vars(WriteDone(s)) /\ WF_vars(ReadOnly(s))
        /\ WF_vars(\E n \in 1..MaxLen : WritePartial(s, n))

FairSpec == Spec /\ Fairness

-----------------------------------------------------------------------------
(* Properties.                                                             *)

Answered(e) == \E i \in DOMAIN answers : answers[i].ev = e

\* Answers (next_event, lines 130-216): each request is answered at most
\* once, and with a response of its own kind: a pending read or write is
\* cleared when its answer is returned.
AnswerOnce ==
    /\ IsInjective([i \in DOMAIN answers |-> answers[i].ev])
    /\ \A i \in DOMAIN answers : answers[i].kind = requests[answers[i].ev].kind

\* Writes (lines 166-193): a write is answered only once poll_write has
\* accepted every byte of its payload.
WriteComplete ==
    \A i \in DOMAIN answers :
        answers[i].kind = "write" =>
            written[answers[i].ev] = requests[answers[i].ev].len

\* No request the program can send, and no network outcome, makes the
\* kernel panic (unwrap, panic!, assert! in handle_message and next_event).
NoKernelPanic == ~panicked

\* Every Open is eventually answered, Ok or Err, unless the kernel panics
\* first, as long as the kernel keeps polling next_event (Connecting arm,
\* lines 133-157).
OpenAnswered ==
    \A e \in Events :
        (e \in DOMAIN requests /\ requests[e].kind = "open")
            ~> (Answered(e) \/ panicked)

\* A pending read whose data has arrived is eventually answered, whatever
\* the pending write on the same socket does (lines 166-207).
ReadableWaiting(e) ==
    \E s \in DOMAIN sockets : sockets[s].pr = e /\ sockets[s].peerData

ReadAnswered ==
    \A e \in Events : ReadableWaiting(e) ~> Answered(e)

=============================================================================
