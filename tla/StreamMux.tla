----------------------------- MODULE StreamMux -----------------------------
(* The registry of one StreamMux (stream_conn.go): streams that are dialled,  *)
(* streams that the peer opens, Accept, the end of a stream and Close of the  *)
(* mux.  What a stream does once it is open is StreamConn's part.             *)
(*                                                                            *)
(* Every section under m.mu is one step, and so is every call of send.  The   *)
(* peer's frames arrive in any order and any number: HandleFrame may be       *)
(* called by several goroutines.  A stream is its number of creation.         *)
EXTENDS Naturals, Sequences, FiniteSets

CONSTANTS StreamIds,     \* StreamID
          Dialers,       \* calls of DialID
          Handlers,      \* goroutines inside handleOpen
          AcceptBacklog, \* StreamMuxConfig.AcceptBacklog
          MaxStreams     \* bound: streams made

ASSUME MuxConstants == AcceptBacklog \in Nat \ {0} /\ MaxStreams \in Nat

VARIABLES streams,       \* StreamMux.streams, 0 for no entry
          made,          \* number of streams made so far
          stream,        \* their id and phase
          removing,      \* terminate has closed done and not yet called remove
          accept,        \* StreamMux.accept
          accepted,      \* streams Accept has returned
          muxClosed, muxCloser, todo,   \* Close of the mux
          dial, dialled, \* calls of DialID
          handler        \* handleOpen in progress

muxRegistryVars == <<streams, made, stream, removing>>
acceptVars == <<accept, accepted>>
muxCloseVars == <<muxClosed, muxCloser, todo>>
muxCallVars == <<dial, dialled, handler>>
muxVars == <<muxRegistryVars, acceptVars, muxCloseVars, muxCallVars>>

Streams == 1..MaxStreams
NoStream == [id |-> CHOOSE i \in StreamIds : TRUE, phase |-> "none"]
Idle == [pc |-> "idle", of |-> 0, created |-> FALSE]
(* A stream is new or open, and once done is closed: done, or ended if opened *)
(* was closed as well.                                                        *)
Live(c) == stream[c].phase \in {"new", "open"}

MuxInit ==
    /\ streams = [i \in StreamIds |-> 0] /\ made = 0 /\ stream = [c \in Streams |-> NoStream]
    /\ removing = {} /\ accept = <<>> /\ accepted = {}
    /\ muxClosed = FALSE /\ muxCloser = "idle" /\ todo = {}
    /\ dial = [d \in Dialers |-> "idle"] /\ dialled = [d \in Dialers |-> 0]
    /\ handler = [h \in Handlers |-> Idle]

-----------------------------------------------------------------------------
(* newStreamConn and its entry in the map.                                    *)
Register(i, phase) ==
    /\ made' = made + 1 /\ streams' = [streams EXCEPT ![i] = made + 1]
    /\ stream' = [stream EXCEPT ![made + 1] = [id |-> i, phase |-> phase]]

(* done is closed, whether or not opened was.                                 *)
WithDone(phase) == CASE phase = "new" -> "done" [] phase = "open" -> "ended" [] OTHER -> phase

(* terminate: the first call closes done; remove follows outside c.mu.        *)
Terminate(c) ==
    /\ stream' = [stream EXCEPT ![c].phase = WithDone(@)]
    /\ removing' = IF Live(c) THEN removing \cup {c} ELSE removing

(* remove: only the stream that owns the entry takes it out.                  *)
Remove(c) ==
    /\ c \in removing /\ removing' = removing \ {c}
    /\ streams' = [i \in StreamIds |-> IF streams[i] = c THEN 0 ELSE streams[i]]
    /\ UNCHANGED <<acceptVars, muxCloseVars, muxCallVars, made, stream>>

-----------------------------------------------------------------------------
(* DialID (96-129).                                                           *)

\* Variant: an ID that is already registered is taken over.
DialRegisterTakes(d, i) ==
    /\ dial[d] = "idle" /\ made < MaxStreams /\ ~muxClosed /\ Register(i, "new")
    /\ dial' = [dial EXCEPT ![d] = "send"] /\ dialled' = [dialled EXCEPT ![d] = made + 1]
    /\ UNCHANGED <<acceptVars, muxCloseVars, removing, handler>>

DialRegister(d, i) ==
    /\ dial[d] = "idle" /\ made < MaxStreams
    /\ IF muxClosed \/ streams[i] # 0
       THEN dial' = [dial EXCEPT ![d] = "failed"] /\ UNCHANGED <<streams, made, stream, dialled>>
       ELSE /\ Register(i, "new")
            /\ dial' = [dial EXCEPT ![d] = "send"] /\ dialled' = [dialled EXCEPT ![d] = made + 1]
    /\ UNCHANGED <<acceptVars, muxCloseVars, removing, handler>>

(* Open is sent, or the send fails and the stream ends.                       *)
DialSend(d) ==
    /\ dial[d] = "send"
    /\ \/ dial' = [dial EXCEPT ![d] = "wait"] /\ UNCHANGED <<stream, removing>>
       \/ dial' = [dial EXCEPT ![d] = "failed"] /\ Terminate(dialled[d])
    /\ UNCHANGED <<acceptVars, muxCloseVars, streams, made, dialled, handler>>

(* opened or done is closed; with both, select takes either.                  *)
DialReturn(d) ==
    /\ dial[d] = "wait"
    /\ \/ stream[dialled[d]].phase \in {"open", "ended"} /\ dial' = [dial EXCEPT ![d] = "ok"]
       \/ stream[dialled[d]].phase \in {"done", "ended"} /\ dial' = [dial EXCEPT ![d] = "failed"]
    /\ UNCHANGED <<muxRegistryVars, acceptVars, muxCloseVars, dialled, handler>>

DialExpires(d) ==
    /\ dial[d] = "wait"
    /\ dial' = [dial EXCEPT ![d] = "failed"] /\ Terminate(dialled[d])
    /\ UNCHANGED <<acceptVars, muxCloseVars, streams, made, dialled, handler>>

-----------------------------------------------------------------------------
(* handleOpen (182-228).                                                      *)

(* A second Open of a registered stream finds it and only answers again.      *)
OpenLookup(h, i) ==
    /\ handler[h].pc = "idle" /\ ~muxClosed
    /\ IF streams[i] = 0
       THEN /\ made < MaxStreams /\ Register(i, "open")
            /\ handler' = [handler EXCEPT ![h] = [pc |-> "ack", of |-> made + 1, created |-> TRUE]]
       ELSE /\ handler' = [handler EXCEPT ![h] = [pc |-> "ack", of |-> streams[i], created |-> FALSE]]
            /\ UNCHANGED <<streams, made, stream>>
    /\ UNCHANGED <<acceptVars, muxCloseVars, removing, dial, dialled>>

OpenAck(h) ==
    /\ handler[h].pc = "ack"
    /\ \/ /\ handler' = [handler EXCEPT ![h] = IF @.created THEN [@ EXCEPT !.pc = "queue"] ELSE Idle]
          /\ UNCHANGED <<stream, removing>>
       \/ /\ handler' = [handler EXCEPT ![h] = Idle]
          /\ IF handler[h].created THEN Terminate(handler[h].of) ELSE UNCHANGED <<stream, removing>>
    /\ UNCHANGED <<acceptVars, muxCloseVars, streams, made, dial, dialled>>

\* Variant: a stream that finds the backlog full is not ended.
OpenQueueLeaves(h) ==
    /\ handler[h].pc = "queue" /\ handler' = [handler EXCEPT ![h] = Idle]
    /\ accept' = IF Len(accept) < AcceptBacklog THEN Append(accept, handler[h].of) ELSE accept
    /\ UNCHANGED <<muxRegistryVars, muxCloseVars, accepted, dial, dialled>>

(* The stream goes to Accept; a full backlog ends it.                         *)
OpenQueue(h) ==
    /\ handler[h].pc = "queue" /\ handler' = [handler EXCEPT ![h] = Idle]
    /\ IF Len(accept) < AcceptBacklog
       THEN accept' = Append(accept, handler[h].of) /\ UNCHANGED <<stream, removing>>
       ELSE Terminate(handler[h].of) /\ UNCHANGED accept
    /\ UNCHANGED <<muxCloseVars, streams, made, accepted, dial, dialled>>

(* Accept (132-148) drops a stream that has ended in the queue.               *)
Accept ==
    /\ accept # <<>> /\ accept' = Tail(accept)
    /\ accepted' = IF Live(Head(accept)) THEN accepted \cup {Head(accept)} ELSE accepted
    /\ UNCHANGED <<muxRegistryVars, muxCloseVars, muxCallVars>>

-----------------------------------------------------------------------------
(* HandleFrame (151-180) looks the stream up, releases m.mu and hands it the  *)
(* frame: the stream may have ended or lost its entry in between.             *)

HandleOpenAck(c) ==
    /\ stream[c].phase \in {"new", "done"}
    /\ stream' = [stream EXCEPT ![c].phase = IF @ = "new" THEN "open" ELSE "ended"]
    /\ UNCHANGED <<acceptVars, muxCloseVars, muxCallVars, streams, made, removing>>

(* A Close frame, or Close of the stream by its user.                         *)
StreamEnds(c) ==
    /\ Live(c) /\ Terminate(c)
    /\ UNCHANGED <<acceptVars, muxCloseVars, muxCallVars, streams, made>>

\* Variant: closed is not set before the streams are taken.
MuxCloseBeginOpen == muxCloser = "idle" /\ muxCloser' = "collect"
    /\ UNCHANGED <<muxRegistryVars, acceptVars, muxCallVars, muxClosed, todo>>

(* Close (239-254): closed first, then the streams are taken and ended.       *)
MuxCloseBegin ==
    /\ muxCloser = "idle"
    /\ muxClosed' = TRUE /\ muxCloser' = "collect"
    /\ UNCHANGED <<muxRegistryVars, acceptVars, muxCallVars, todo>>

MuxCloseCollect ==
    /\ muxCloser = "collect"
    /\ todo' = {streams[i] : i \in StreamIds} \ {0} /\ streams' = [i \in StreamIds |-> 0]
    /\ muxCloser' = "end"
    /\ UNCHANGED <<acceptVars, muxCallVars, made, stream, removing, muxClosed>>

MuxCloseEnd ==
    /\ muxCloser = "end"
    /\ \/ \E c \in todo : Terminate(c) /\ todo' = todo \ {c} /\ UNCHANGED muxCloser
       \/ todo = {} /\ muxCloser' = "done" /\ UNCHANGED <<todo, stream, removing>>
    /\ UNCHANGED <<acceptVars, muxCallVars, streams, made, muxClosed>>

-----------------------------------------------------------------------------
MuxNext ==
    \/ \E d \in Dialers : (\E i \in StreamIds : DialRegister(d, i)) \/ DialSend(d) \/ DialReturn(d)
                          \/ DialExpires(d)
    \/ \E h \in Handlers : (\E i \in StreamIds : OpenLookup(h, i)) \/ OpenAck(h) \/ OpenQueue(h)
    \/ Accept \/ MuxCloseBegin \/ MuxCloseCollect \/ MuxCloseEnd
    \/ \E c \in Streams : HandleOpenAck(c) \/ StreamEnds(c) \/ Remove(c)

MuxSpec == MuxInit /\ [][MuxNext]_muxVars

-----------------------------------------------------------------------------
(* The frames of a live stream reach it: until the mux is closed it owns the  *)
(* entry of its id, against dialled and opened streams of the same id and     *)
(* late removals.                                                             *)
LiveIsRegistered ==
    \A c \in Streams : Live(c) /\ muxCloser \in {"idle", "collect"} => streams[stream[c].id] = c

(* Close leaves no live stream, whatever dials and opens it races with:       *)
(* "Close terminates all streams" (stream_conn.go:238).                       *)
CloseEndsStreams == muxCloser = "done" => \A c \in Streams : ~Live(c)

(* A live stream is in somebody's hands: a handler's, the accept queue's, its *)
(* acceptor's or its dialler's while the call runs or has succeeded.          *)
NoStrandedStream ==
    \A c \in Streams : Live(c) =>
        \/ c \in accepted \/ \E k \in 1..Len(accept) : accept[k] = c
        \/ \E h \in Handlers : handler[h].of = c /\ handler[h].created
        \/ \E d \in Dialers : dialled[d] = c /\ dial[d] # "failed"

=============================================================================
