------------------------------ MODULE WsTunnel ------------------------------
(***************************************************************************)
(* One WebSocket tunnel of edgeproxy (serveWebSocketTunnel, tunnelConns):  *)
(* the handler dials the plugin backend, passes the request on, waits for  *)
(* the answer, takes the client's connection over and leaves both to two   *)
(* copiers.                                                                *)
(*                                                                         *)
(* An end sends the bytes 1, 2, ... after its header, may close its half   *)
(* of the connection, and may vanish (a reset, or a machine that is gone). *)
(* inbox[e] is what an end has sent and nobody has read, outbox[e] what    *)
(* was written to it and it has not read.                                  *)
(*                                                                         *)
(* Abstracted: headers, the outbound proxy, TLS records, socket options.   *)
(***************************************************************************)
EXTENDS Naturals, Sequences

CONSTANTS MaxBytes,     \* bound: bytes an end sends
          Window        \* unread bytes written to an end before a write blocks

ASSUME TunnelAssumption == MaxBytes \in Nat /\ Window \in Nat \ {0}

Ends == {"client", "backend"}
Other(e) == IF e = "client" THEN "backend" ELSE "client"

VARIABLES
    stage,      \* where the handler, or the tunnel after it, is
    reply,      \* the backend's answer: none yet, 101, or another one
    end,        \* per end: open, closed (no more bytes will come), gone
    sent,       \* per end: bytes it has sent
    inbox,
    early,      \* bytes of the client read with its request (clientBuf)
    outbox,
    got,        \* per end: the bytes it has read
    shut,       \* per end, what the proxy did: open, half, closed
    copying,    \* the ends whose copier runs
    lost        \* observation: backend bytes that were read with its header

peers  == <<end, sent, got>>
tunnel == <<stage, reply, peers, inbox, early, outbox, shut, copying, lost>>

TunnelInit ==
    /\ stage = "none" /\ reply = "none"
    /\ end = [e \in Ends |-> "open"]
    /\ sent = [e \in Ends |-> 0]
    /\ inbox = [e \in Ends |-> <<>>] /\ outbox = [e \in Ends |-> <<>>]
    /\ got = [e \in Ends |-> <<>>]
    /\ early = <<>>
    /\ shut = [e \in Ends |-> "open"]
    /\ copying = {}
    /\ lost = 0

Take(s, n) == SubSeq(s, 1, n)
Drop(s, n) == SubSeq(s, n + 1, Len(s))

-----------------------------------------------------------------------------
(* The two ends. *)

(* The client may send before it is answered, the backend after its 101.    *)
MaySend(e) == /\ end[e] = "open" /\ shut[e] # "closed"
              /\ IF e = "client" THEN stage \notin {"none", "refused"} ELSE reply = "101"

Send(e) ==
    /\ MaySend(e) /\ sent[e] < MaxBytes
    /\ sent' = [sent EXCEPT ![e] = @ + 1]
    /\ inbox' = [inbox EXCEPT ![e] = Append(@, sent'[e])]
    /\ UNCHANGED <<stage, reply, end, got, early, outbox, shut, copying, lost>>

CloseEnd(e) ==
    /\ stage # "none" /\ end[e] = "open"
    /\ end' = [end EXCEPT ![e] = "closed"]
    /\ UNCHANGED <<stage, reply, sent, got, inbox, early, outbox, shut, copying, lost>>

(* What was on its way in either direction may be lost. *)
Vanish(e) ==
    /\ stage # "none" /\ end[e] # "gone"
    /\ end' = [end EXCEPT ![e] = "gone"]
    /\ \E n \in 0 .. Len(inbox[e]) : inbox' = [inbox EXCEPT ![e] = Take(@, n)]
    /\ outbox' = [outbox EXCEPT ![e] = <<>>]
    /\ UNCHANGED <<stage, reply, sent, got, early, shut, copying, lost>>

Read(e) ==
    /\ end[e] # "gone" /\ outbox[e] # <<>>
    /\ got' = [got EXCEPT ![e] = Append(@, Head(outbox[e]))]
    /\ outbox' = [outbox EXCEPT ![e] = Tail(@)]
    /\ UNCHANGED <<stage, reply, end, sent, inbox, early, shut, copying, lost>>

Reply(r) ==
    /\ stage = "asking" /\ reply = "none" /\ end["backend"] = "open"
    /\ reply' = r
    /\ UNCHANGED <<stage, peers, inbox, early, outbox, shut, copying, lost>>

-----------------------------------------------------------------------------
(* serveWebSocketTunnel. *)

Open == /\ stage = "none"
        /\ stage' = "dialing"
        /\ UNCHANGED <<reply, peers, inbox, early, outbox, shut, copying, lost>>

(* Dialling has ten seconds; then the request is written. *)
Dial == /\ stage = "dialing"
        /\ stage' = "asking"
        /\ UNCHANGED <<reply, peers, inbox, early, outbox, shut, copying, lost>>

(* Answered with an error or with the backend's answer; the backend is let  *)
(* go, the client's connection stays with the server.                       *)
Refuse == /\ stage' = "refused"
          /\ shut' = [shut EXCEPT !["backend"] = "closed"]
          /\ UNCHANGED <<reply, peers, inbox, early, outbox, copying, lost>>

DialFails == stage = "dialing" /\ Refuse

(* ReadResponse through a buffered reader: whatever bytes had arrived with  *)
(* the header stay in its buffer, which is never looked at again.           *)
ReadHeader ==
    /\ stage = "asking" /\ reply = "101"
    /\ stage' = "answered"
    /\ \E n \in 0 .. Len(inbox["backend"]) :
          /\ lost' = n
          /\ inbox' = [inbox EXCEPT !["backend"] = Drop(@, n)]
    /\ UNCHANGED <<reply, peers, early, outbox, shut, copying>>

NoUpgrade == /\ stage = "asking"
             /\ reply = "other" \/ (reply = "none" /\ end["backend"] # "open")
             /\ Refuse

(* Mutant: the backend is forgotten. *)
HijackFailsOpen ==
    /\ stage = "answered" /\ stage' = "refused"
    /\ UNCHANGED <<reply, peers, inbox, early, outbox, shut, copying, lost>>

HijackFails == stage = "answered" /\ Refuse

(* Mutant: what was read with the request is left in its buffer. *)
HijackUnread ==
    /\ stage = "answered" /\ stage' = "flushing"
    /\ \E n \in 0 .. Len(inbox["client"]) :
          inbox' = [inbox EXCEPT !["client"] = Drop(@, n)]
    /\ UNCHANGED <<reply, peers, early, outbox, shut, copying, lost>>

(* Bytes of the client that the server has read with the request. *)
Hijack ==
    /\ stage = "answered" /\ stage' = "flushing"
    /\ \E n \in 0 .. Len(inbox["client"]) :
          /\ early' = Take(inbox["client"], n)
          /\ inbox' = [inbox EXCEPT !["client"] = Drop(@, n)]
    /\ UNCHANGED <<reply, peers, outbox, shut, copying, lost>>

CanWrite(e) == end[e] = "gone" \/ Len(outbox[e]) < Window

(* A write to an end that is gone fails. *)
Written(e, b) == IF end[e] = "gone" THEN outbox
                 ELSE [outbox EXCEPT ![e] = Append(@, b)]

(* CopyN, whose error is dropped. *)
Flush == /\ stage = "flushing" /\ early # <<>> /\ CanWrite("backend")
         /\ outbox' = Written("backend", Head(early))
         /\ early' = Tail(early)
         /\ UNCHANGED <<stage, reply, peers, inbox, shut, copying, lost>>

(* Closing a connection with unread bytes resets it: the end may not get    *)
(* what is on its way to it.                                                *)
CloseBoth ==
    /\ stage' = "closed"
    /\ shut' = [e \in Ends |-> "closed"]
    /\ \E n \in [Ends -> 0 .. Window] :
          /\ \A e \in Ends : IF inbox[e] = <<>> THEN n[e] = Len(outbox[e])
                                                ELSE n[e] <= Len(outbox[e])
          /\ outbox' = [e \in Ends |-> Take(outbox[e], n[e])]
    /\ UNCHANGED <<reply, peers, inbox, early, copying, lost>>

(* The 101 is written to the client. *)
Greet == /\ stage = "flushing" /\ early = <<>>
         /\ IF end["client"] = "gone" THEN CloseBoth
            ELSE /\ stage' = "open" /\ copying' = Ends
                 /\ UNCHANGED <<reply, peers, inbox, early, outbox, shut, lost>>

-----------------------------------------------------------------------------
(* tunnelConns. *)

(* Mutant: the reader's end is not passed on. *)
StopOnly(e) ==
    /\ copying' = copying \ {e}
    /\ UNCHANGED <<stage, reply, peers, inbox, early, outbox, shut, lost>>

(* tunnelOneWay after the copy: closeWrite(dst), wg.Done. *)
StopCopying(e) ==
    /\ copying' = copying \ {e}
    /\ shut' = [shut EXCEPT ![Other(e)] = "half"]
    /\ UNCHANGED <<stage, reply, peers, inbox, early, outbox, lost>>

Copy(e) ==
    /\ e \in copying /\ inbox[e] # <<>> /\ end[Other(e)] # "gone" /\ CanWrite(Other(e))
    /\ outbox' = Written(Other(e), Head(inbox[e]))
    /\ inbox' = [inbox EXCEPT ![e] = Tail(@)]
    /\ UNCHANGED <<stage, reply, peers, early, shut, copying, lost>>

(* Mutant: a failed write leaves the copier behind. *)
EndOnEof(e) == inbox[e] = <<>> /\ end[e] # "open"

(* io.Copy returns: nothing more to read, or nobody to write it to. *)
CopyEnds(e) == IF inbox[e] = <<>> THEN end[e] # "open" ELSE end[Other(e)] = "gone"

EndCopy(e) == e \in copying /\ CopyEnds(e) /\ StopCopying(e)

(* Mutant: the first direction to end takes the other with it. *)
OneIsDone == copying # Ends

(* wg.Wait *)
BothDone == copying = {}

EndTunnel == stage = "open" /\ BothDone /\ CloseBoth

Proxying == \/ Dial \/ DialFails \/ ReadHeader \/ NoUpgrade \/ HijackFails \/ Hijack
            \/ Flush \/ Greet \/ EndTunnel
Copying(e) == Copy(e) \/ EndCopy(e)

TunnelNext ==
    \/ Open
    \/ Proxying
    \/ \E e \in Ends : Copying(e) \/ Send(e) \/ CloseEnd(e) \/ Vanish(e) \/ Read(e)
    \/ \E r \in {"101", "other"} : Reply(r)

-----------------------------------------------------------------------------
(* Properties. *)

Bytes == Seq(1 .. MaxBytes)

(* Type correctness; the handler, whichever step of it fails, does not      *)
(* leave the backend's connection behind.                                   *)
TunnelTypeOK ==
    /\ stage \in {"none", "dialing", "asking", "answered", "flushing", "open",
                  "refused", "closed"}
    /\ reply \in {"none", "101", "other"}
    /\ end \in [Ends -> {"open", "closed", "gone"}]
    /\ sent \in [Ends -> 0 .. MaxBytes]
    /\ inbox \in [Ends -> Bytes] /\ outbox \in [Ends -> Bytes]
    /\ got \in [Ends -> Bytes] /\ early \in Bytes
    /\ shut \in [Ends -> {"open", "half", "closed"}]
    /\ copying \subseteq Ends
    /\ stage \in {"refused", "closed"} => shut["backend"] = "closed"
    /\ lost \in 0 .. MaxBytes

(* Each end gets the other's bytes in their order and without a gap, across *)
(* the three places they pass through (the server's buffer, the handler,    *)
(* the copier).  The one exception is at the start: a backend's bytes that  *)
(* were read with its 101.                                                  *)
StreamsIntact ==
    \A e \in Ends :
       LET s == got[e] \o outbox[e]
           skipped == IF e = "client" THEN lost ELSE 0
       IN  \A i \in DOMAIN s : s[i] = skipped + i

SeesEnd(e) == stage \in {"open", "closed"} /\ shut[e] # "open" /\ outbox[e] = <<>>

(* An end that reads the end of the stream has got everything the other end *)
(* sent after the header, also when it closed its own half long before, or  *)
(* when the other end closed at once: neither direction cuts the other.     *)
EndMeansAll ==
    \A e \in Ends :
       SeesEnd(e) /\ end[e] # "gone" /\ end[Other(e)] # "gone" =>
          Len(got[e]) = sent[Other(e)] - (IF e = "client" THEN lost ELSE 0)

(* Liveness, when the ends that are there read what they are sent: the end  *)
(* of one end is passed on to the other, and a tunnel whose ends have both  *)
(* ended is closed.  A peer that neither sends nor closes keeps the tunnel  *)
(* open for ever, also when the other is gone: nothing has a deadline.      *)
EndsArePassedOn ==
    /\ \A e \in Ends : stage = "open" /\ end[e] # "open" ~>
                           SeesEnd(Other(e)) \/ end[Other(e)] = "gone"
    /\ stage = "open" /\ (\A e \in Ends : end[e] # "open") ~> stage = "closed"
=============================================================================
