---------------------------- MODULE EdgeHandler ----------------------------
(***************************************************************************)
(* The request handler of edgeproxy around its cache: certificate and      *)
(* route are chosen (EdgeRoute), a WebSocket upgrade becomes a tunnel      *)
(* (WsTunnel), an answer that compresses well goes through gzip            *)
(* (GzipPipe), everything else is one call of the reverse proxy or of the  *)
(* cache (EdgeCache).  One request at a time is modelled: requests share   *)
(* nothing but what the process loaded.                                    *)
(***************************************************************************)
EXTENDS EdgeRoute, WsTunnel, GzipPipe

vars == <<naming, serving, tunnel, gz>>

Init == RouteInit /\ TunnelInit /\ GzInit

Tunnelling == by.who = "tunnel"
Zipping == by.who = "site" /\ work # "off"

(* shouldGzip: GET and the like, accepted by the client, of a type worth    *)
(* it, neither encoded already nor an upgrade.                              *)
ShouldGzip(q) == ~q.head /\ q.gzip /\ q.text

(* The tunnel runs on after the handler has returned. *)
EndOfTunnel == /\ Tunnelling /\ stage \in {"refused", "closed"}
               /\ \A e \in Ends : outbox[e] = <<>> \/ end[e] = "gone"
               /\ Served
               /\ stage' = "none" /\ reply' = "none" /\ lost' = 0 /\ early' = <<>>
               /\ end' = [e \in Ends |-> "open"] /\ sent' = [e \in Ends |-> 0]
               /\ inbox' = [e \in Ends |-> <<>>] /\ outbox' = inbox'
               /\ got' = [e \in Ends |-> <<>>]
               /\ shut' = [e \in Ends |-> "open"] /\ copying' = {}
               /\ UNCHANGED gz

(* ModifyResponse compresses, or the answer goes out as it is. *)
StartGzip == /\ by.who = "site" /\ work = "off" /\ ShouldGzip(request)
             /\ \E n \in 0 .. MaxParts : Compress(n)
             /\ UNCHANGED <<naming, serving, tunnel>>

EndOfGzip == /\ Zipping /\ work = "done" /\ reader # "reading"
             /\ Served
             /\ parts' = 0 /\ taken' = 0 /\ kept' = 0 /\ offered' = 0 /\ read' = 0
             /\ body' = "more" /\ work' = "off" /\ pipe' = "open"
             /\ reader' = "reading" /\ copyErr' = FALSE
             /\ UNCHANGED tunnel

PlainAnswer == /\ by.who \in {"health", "plugin"} \/ (by.who = "site" /\ work = "off" /\ ~ShouldGzip(request))
               /\ Served
               /\ UNCHANGED <<tunnel, gz>>

InTunnel(A) == Tunnelling /\ A /\ UNCHANGED <<naming, serving, gz>>
InGzip(A)   == Zipping /\ A /\ UNCHANGED <<naming, serving, tunnel>>

Next ==
    \/ RouteNext /\ UNCHANGED <<tunnel, gz>>
    \/ \E q \in RouteRequests : Serve(q) /\ UNCHANGED <<tunnel, gz>>
    \/ InTunnel(TunnelNext)
    \/ EndOfTunnel
    \/ StartGzip
    \/ InGzip(Goroutine \/ BodyFails \/ GzReader \/ Leave)
    \/ EndOfGzip
    \/ PlainAnswer

Spec == Init /\ [][Next]_vars

(* The goroutines keep running, and the two ends of a tunnel that are there *)
(* read, as does the reader of a pipe: network stacks outside this code.    *)
FairSpec ==
    /\ Spec
    /\ WF_vars(InTunnel(Proxying))
    /\ \A e \in Ends : WF_vars(InTunnel(Copying(e))) /\ WF_vars(InTunnel(Read(e)))
    /\ WF_vars(InGzip(Goroutine)) /\ WF_vars(InGzip(GzReader))

-----------------------------------------------------------------------------
(* The variables of the three parts have their types; a tunnel or a         *)
(* compressor is busy only for a request that was given one.                *)
HandlerTypeOK ==
    /\ TunnelTypeOK /\ GzTypeOK
    /\ running \in BOOLEAN
    /\ by.who \in {"nobody", "health", "site", "plugin", "tunnel"}
    /\ by.route \in 0 .. Len(routes)
    /\ request \in RouteRequests \cup {NoRequest}
    /\ stage # "none" => Tunnelling
    /\ work # "off" => by.who = "site"
=============================================================================
