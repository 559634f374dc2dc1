----------------------------- MODULE EdgeProofs -----------------------------
(***************************************************************************)
(* Theorems about EdgeHandler, for every list of certificates and routes,  *)
(* any number of bytes of a tunnel, any window and any number of chunks of *)
(* a body: its types, the streams of a tunnel, the end of a compressed     *)
(* body, who serves a request and which certificate a name gets.           *)
(***************************************************************************)
EXTENDS EdgeHandler, WsTunnelProofs, WellFoundedInduction

(* The request being served. *)
ServingTypeOK ==
    /\ running \in BOOLEAN
    /\ by.who \in {"nobody", "health", "site", "plugin", "tunnel"}
    /\ by.route \in 0 .. Len(routes)
    /\ request \in RouteRequests \cup {NoRequest}

(* What the compressor and the reader of its pipe have agreed on: nothing   *)
(* is lost between them unless the reader has left, a body that was not     *)
(* read to its end leaves an error, and the pipe ends without one only when *)
(* everything has been read.                                                *)
GzInv ==
    /\ GzTypeOK
    /\ work = "off" =>
          /\ parts = 0 /\ taken = 0 /\ kept = 0 /\ offered = 0 /\ read = 0
          /\ body = "more" /\ pipe = "open" /\ reader = "reading" /\ copyErr = FALSE
    /\ work \in {"off", "copying"} => copyErr = FALSE
    /\ work = "closing" /\ ~copyErr => offered = 0
    /\ work \in {"closing", "last", "done"} /\ ~copyErr => taken = parts
    /\ work \in {"off", "copying", "closing"} => kept + offered + read = taken
    /\ work = "last" /\ offered > 0 => kept + read + (offered - 1) <= taken
    /\ work = "last" /\ ~copyErr =>
          /\ kept = 0
          /\ IF offered = 0 THEN read = taken ELSE read + (offered - 1) = taken
    /\ work = "done" <=> pipe # "open"
    /\ work = "done" /\ offered > 0 => reader = "left"
    /\ pipe = "eof" => read = parts
    /\ reader = "ended" => pipe = "eof"

-----------------------------------------------------------------------------
(* The compressor. *)

LEMMA EmptyGz ==
    ASSUME parts = 0, taken = 0, kept = 0, offered = 0, read = 0, body = "more",
           work = "off", pipe = "open", reader = "reading", copyErr = FALSE
    PROVE  GzInv
<1>1. parts \in 0 .. MaxParts /\ taken \in 0 .. parts
  BY GzipAssumption
<1>2. copyErr \in BOOLEAN
  OBVIOUS
<1>3. kept \in Nat /\ offered \in Nat /\ read \in Nat /\ kept + read <= taken
  OBVIOUS
<1>4. GzTypeOK
  BY <1>1, <1>2, <1>3, Zenon DEF GzTypeOK
<1> QED
  BY <1>4 DEF GzInv

LEMMA GzInitInv == GzInit => GzInv
BY EmptyGz DEF GzInit

LEMMA CompressInv == GzInv /\ (\E n \in 0 .. MaxParts : Compress(n)) => GzInv'
BY GzipAssumption DEF Compress, GzInv, GzTypeOK

LEMMA ChunkInv == GzInv /\ Chunk => GzInv'
BY GzipAssumption DEF Chunk, GzInv, GzTypeOK

LEMMA OfferInv == GzInv /\ Offer => GzInv'
BY GzipAssumption DEF Offer, GzInv, GzTypeOK

LEMMA BodyFailsInv == GzInv /\ BodyFails => GzInv'
BY GzipAssumption DEF BodyFails, GzInv, GzTypeOK

LEMMA CopyReturnsInv == GzInv /\ CopyReturns => GzInv'
BY GzipAssumption DEF CopyReturns, GzInv, GzTypeOK

LEMMA CloseGzipInv == GzInv /\ CloseGzip => GzInv'
BY GzipAssumption DEF CloseGzip, GzInv, GzTypeOK

LEMMA EndPipeInv == GzInv /\ EndPipe => GzInv'
BY GzipAssumption DEF EndPipe, CloseBody, PipeEnd, GzInv, GzTypeOK

LEMMA ReadPipeInv == GzInv /\ ReadPipe => GzInv'
BY GzipAssumption DEF ReadPipe, GzInv, GzTypeOK

LEMMA ReadEndInv == GzInv /\ ReadEnd => GzInv'
BY GzipAssumption DEF ReadEnd, GzInv, GzTypeOK

LEMMA LeaveInv == GzInv /\ Leave => GzInv'
BY GzipAssumption DEF Leave, GzInv, GzTypeOK

LEMMA GzStays == GzInv /\ UNCHANGED gz => GzInv'
BY DEF gz, GzInv, GzTypeOK

LEMMA EndOfGzipInv == EndOfGzip => GzInv'
<1> SUFFICES ASSUME EndOfGzip  PROVE GzInv'
  OBVIOUS
<1>1. /\ parts' = 0 /\ taken' = 0 /\ kept' = 0 /\ offered' = 0 /\ read' = 0
      /\ body' = "more" /\ work' = "off" /\ pipe' = "open" /\ reader' = "reading"
      /\ copyErr' = FALSE
  BY DEF EndOfGzip
<1>2. parts' \in 0 .. MaxParts /\ taken' \in 0 .. parts'
  BY <1>1, GzipAssumption
<1>3. copyErr' \in BOOLEAN
  BY <1>1
<1>4. kept' \in Nat /\ offered' \in Nat /\ read' \in Nat /\ kept' + read' <= taken'
  BY <1>1
<1>5. GzTypeOK'
  BY <1>1, <1>2, <1>3, <1>4, Zenon DEF GzTypeOK
<1> QED
  BY <1>1, <1>5 DEF GzInv

-----------------------------------------------------------------------------
(* The handler. *)

LEMMA MatchIsRoute ==
    ASSUME NEW S, NEW rs \in Seq(S), NEW q
    PROVE  Match(rs, q) \in 0 .. Len(rs)
<1>1. DOMAIN rs = 1 .. Len(rs) /\ Len(rs) \in Nat
  OBVIOUS
<1>2. Match(rs, q) \in DOMAIN rs \/ Match(rs, q) = 0
  BY DEF Match
<1> QED
  BY <1>1, <1>2

RoutesAreSeq == routes \in Seq({routes[i] : i \in DOMAIN routes})

(* Who serves a request. *)
LEMMA ServerType ==
    ASSUME RoutesAreSeq, NEW q
    PROVE  /\ Server(routes, q).who \in {"health", "site", "plugin", "tunnel"}
           /\ Server(routes, q).route \in 0 .. Len(routes)
<1>1. Match(routes, q) \in 0 .. Len(routes) /\ Len(routes) \in Nat
  BY MatchIsRoute DEF RoutesAreSeq
<1> QED
  BY <1>1 DEF Server

HandlerInv ==
    /\ RoutesAreSeq /\ ServingTypeOK
    /\ TunnelInv /\ GzInv
    /\ stage # "none" => Tunnelling
    /\ work # "off" => by.who = "site"
    /\ ~running => by = Idle

LEMMA HandlerInit == Init => HandlerInv
<1> SUFFICES ASSUME Init  PROVE HandlerInv
  OBVIOUS
<1>1. TunnelInv /\ GzInv
  BY TunnelInitInv, GzInitInv DEF Init
<1>2. RoutesAreSeq /\ Len(routes) = 0
  <2>1. routes = <<>>
    BY DEF Init, RouteInit
  <2>2. {routes[i] : i \in DOMAIN routes} = {}
    BY <2>1
  <2> QED
    BY <2>1 DEF RoutesAreSeq
<1>3. /\ running = FALSE /\ by = [who |-> "nobody", route |-> 0] /\ request = NoRequest
      /\ stage = "none" /\ work = "off"
  BY DEF Init, RouteInit, Idle, TunnelInit, GzInit
<1>4. running \in BOOLEAN /\ by.who = "nobody" /\ by.route = 0 /\ by = Idle
  BY <1>3 DEF Idle
<1>5. 0 \in 0 .. Len(routes)
  BY <1>2
<1> QED
  BY <1>1, <1>2, <1>3, <1>4, <1>5 DEF HandlerInv, ServingTypeOK

(* The steps of a tunnel or a compressor leave the choice of it alone.      *)
LEMMA SameServing ==
    ASSUME HandlerInv, UNCHANGED <<naming, serving>>
    PROVE  RoutesAreSeq' /\ ServingTypeOK' /\ (~running' => by' = Idle)
BY DEF HandlerInv, RoutesAreSeq, ServingTypeOK, naming, serving

LEMMA EndServing ==
    ASSUME HandlerInv, Served
    PROVE  RoutesAreSeq' /\ ServingTypeOK' /\ by' = Idle
<1>1. UNCHANGED <<running, routes>> /\ by' = Idle /\ request' = NoRequest
  BY DEF Served, naming
<1>2. by'.who = "nobody" /\ by'.route = 0
  BY <1>1 DEF Idle
<1>3. 0 \in 0 .. Len(routes)
  BY DEF HandlerInv, RoutesAreSeq
<1> QED
  BY <1>1, <1>2, <1>3 DEF HandlerInv, ServingTypeOK, RoutesAreSeq

LEMMA RouteStep ==
    ASSUME HandlerInv, RouteNext, UNCHANGED <<tunnel, gz>>
    PROVE  HandlerInv'
<1>1. TunnelInv' /\ GzInv' /\ stage' = stage /\ work' = work
  BY TunnelStays, GzStays DEF tunnel, gz, HandlerInv
<1>2. by = Idle /\ by' = Idle /\ request' = request
  BY DEF RouteNext, StartEdge, StopEdge, serving, HandlerInv
<1>3. by'.who = "nobody" /\ by'.route = 0 /\ by.who = "nobody"
  BY <1>2 DEF Idle
<1>4. stage' = "none" /\ work' = "off"
  BY <1>1, <1>3 DEF HandlerInv, Tunnelling
<1>5. RoutesAreSeq'
  <2>1. ASSUME NEW f \in RouteFiles, StartEdge(f)  PROVE RoutesAreSeq'
    BY <2>1, RouteAssumption DEF StartEdge, RoutesAreSeq, IsSequence, ToSet
  <2>2. CASE StopEdge
    <3>1. routes' = <<>>
      BY <2>2 DEF StopEdge
    <3> QED
      BY <3>1 DEF RoutesAreSeq
  <2> QED
    BY <2>1, <2>2 DEF RouteNext
<1>6. running' \in BOOLEAN
  BY DEF RouteNext, StartEdge, StopEdge
<1>7. 0 \in 0 .. Len(routes')
  BY <1>5 DEF RoutesAreSeq
<1>8. ServingTypeOK'
  BY <1>2, <1>3, <1>6, <1>7 DEF ServingTypeOK, HandlerInv
<1> QED
  BY <1>1, <1>2, <1>4, <1>5, <1>8 DEF HandlerInv

LEMMA ServeStep ==
    ASSUME HandlerInv, NEW q \in RouteRequests, Serve(q), UNCHANGED <<tunnel, gz>>
    PROVE  HandlerInv'
<1>1. TunnelInv' /\ GzInv' /\ stage' = stage /\ work' = work
  BY TunnelStays, GzStays DEF tunnel, gz, HandlerInv
<1>2. /\ by = Idle /\ running /\ by' = Server(routes, q) /\ request' = q
      /\ UNCHANGED <<running, routes>>
  BY DEF Serve, naming
<1>3. stage' = "none" /\ work' = "off"
  BY <1>1, <1>2 DEF HandlerInv, Tunnelling, Idle
<1>4. RoutesAreSeq'
  BY <1>2 DEF HandlerInv, RoutesAreSeq
<1>5. by'.who \in {"health", "site", "plugin", "tunnel"} /\ by'.route \in 0 .. Len(routes')
  BY <1>2, ServerType DEF HandlerInv
<1>6. ServingTypeOK' /\ running'
  BY <1>2, <1>5 DEF HandlerInv, ServingTypeOK
<1> QED
  BY <1>1, <1>3, <1>4, <1>6 DEF HandlerInv

LEMMA TunnelStep ==
    ASSUME HandlerInv, InTunnel(TunnelNext)
    PROVE  HandlerInv'
<1>1. Tunnelling /\ UNCHANGED <<naming, serving, gz>> /\ TunnelNext
  BY DEF InTunnel
<1>2. TunnelInv' /\ GzInv'
  BY <1>1, TunnelNextInv, GzStays DEF HandlerInv
<1>3. Tunnelling' /\ by' = by /\ work' = work
  BY <1>1 DEF Tunnelling, serving, gz
<1> QED
  BY <1>1, <1>2, <1>3, SameServing DEF HandlerInv

LEMMA EndOfTunnelStep ==
    ASSUME HandlerInv, EndOfTunnel
    PROVE  HandlerInv'
<1>1. Tunnelling /\ Served /\ UNCHANGED gz
  BY DEF EndOfTunnel
<1>2. TunnelInit'
  BY DEF EndOfTunnel, TunnelInit
<1>3. TunnelInv'
  BY <1>2, TunnelInitInv, PTL
<1>4. GzInv' /\ work' = "off" /\ stage' = "none"
  BY <1>1, <1>2, GzStays DEF HandlerInv, Tunnelling, gz, TunnelInit
<1> QED
  BY <1>1, <1>3, <1>4, EndServing DEF HandlerInv

LEMMA GzipStep ==
    ASSUME HandlerInv, StartGzip \/ InGzip(Goroutine \/ BodyFails \/ GzReader \/ Leave)
    PROVE  HandlerInv'
<1>1. by.who = "site" /\ UNCHANGED <<naming, serving, tunnel>>
  BY DEF StartGzip, InGzip, Zipping
<1>2. GzInv'
  <2>1. CASE StartGzip
    BY <2>1, CompressInv DEF StartGzip, HandlerInv
  <2>2. CASE InGzip(Goroutine \/ BodyFails \/ GzReader \/ Leave)
    BY <2>2, ChunkInv, OfferInv, CopyReturnsInv, CloseGzipInv, EndPipeInv, BodyFailsInv,
       ReadPipeInv, ReadEndInv, LeaveInv
       DEF InGzip, Goroutine, GzReader, Cancel, HandlerInv
  <2> QED
    BY <2>1, <2>2
<1>3. TunnelInv' /\ stage' = stage /\ by' = by
  BY <1>1, TunnelStays DEF HandlerInv, tunnel, serving
<1>4. stage' = "none"
  BY <1>1, <1>3 DEF HandlerInv, Tunnelling
<1> QED
  BY <1>1, <1>2, <1>3, <1>4, SameServing DEF HandlerInv

LEMMA AnswerStep ==
    ASSUME HandlerInv, EndOfGzip \/ PlainAnswer
    PROVE  HandlerInv'
<1>1. Served /\ UNCHANGED tunnel /\ ~Tunnelling
  BY DEF EndOfGzip, PlainAnswer, Zipping, Tunnelling
<1>2. TunnelInv' /\ stage' = "none"
  BY <1>1, TunnelStays DEF HandlerInv, tunnel
<1>3. GzInv' /\ work' = "off"
  <2>1. CASE EndOfGzip
    BY <2>1, EndOfGzipInv DEF EndOfGzip
  <2>2. CASE PlainAnswer
    BY <2>2, GzStays DEF PlainAnswer, HandlerInv, gz
  <2> QED
    BY <2>1, <2>2
<1> QED
  BY <1>1, <1>2, <1>3, EndServing DEF HandlerInv

LEMMA HandlerStep == HandlerInv /\ [Next]_vars => HandlerInv'
<1> SUFFICES ASSUME HandlerInv, [Next]_vars  PROVE HandlerInv'
  OBVIOUS
<1>1. CASE UNCHANGED vars
  <2>1. UNCHANGED <<naming, serving, tunnel, gz>>
    BY <1>1 DEF vars
  <2>2. TunnelInv' /\ GzInv' /\ stage' = stage /\ work' = work /\ by' = by
    BY <2>1, TunnelStays, GzStays DEF HandlerInv, tunnel, gz, serving
  <2> QED
    BY <2>1, <2>2, SameServing DEF HandlerInv, Tunnelling
<1>2. CASE Next
  BY <1>2, RouteStep, ServeStep, TunnelStep, EndOfTunnelStep, GzipStep, AnswerStep DEF Next
<1> QED
  BY <1>1, <1>2

LEMMA HandlerInvariant == Spec => []HandlerInv
BY HandlerInit, HandlerStep, PTL DEF Spec

-----------------------------------------------------------------------------

(* Every state is type correct, and tunnel and compressor are busy only for *)
(* a request that was given one.                                            *)
THEOREM HandlerTypeCorrect == Spec => []HandlerTypeOK
<1>1. HandlerInv => HandlerTypeOK
  BY DEF HandlerInv, HandlerTypeOK, ServingTypeOK, TunnelInv, GzInv
<1> QED
  BY <1>1, HandlerInvariant, PTL

(* Each end of a tunnel gets the other's bytes in order and without a gap,  *)
(* for any number of bytes and any window.                                  *)
THEOREM StreamsAlwaysIntact == Spec => []StreamsIntact
<1>1. HandlerInv => StreamsIntact
  BY InvIntact DEF HandlerInv
<1> QED
  BY <1>1, HandlerInvariant, PTL

(* Who reads the end of a stream has got all of it, whatever the other      *)
(* direction of the tunnel does.                                            *)
THEOREM EndAlwaysMeansAll == Spec => []EndMeansAll
<1>1. HandlerInv => EndMeansAll
  BY InvMeansAll DEF HandlerInv
<1> QED
  BY <1>1, HandlerInvariant, PTL

(* An answer that went through gzip and ends without an error is the whole  *)
(* body.                                                                    *)
THEOREM EndAlwaysWhole == Spec => []EndIsWhole
<1>1. HandlerInv => EndIsWhole
  BY DEF HandlerInv, GzInv, EndIsWhole
<1> QED
  BY <1>1, HandlerInvariant, PTL

-----------------------------------------------------------------------------
(* Names and prefixes: what the library's operators on sequences decide.    *)

(* The least number of a set. *)
LEMMA NatMin ==
    ASSUME NEW T, T \subseteq Nat, T # {}
    PROVE  \E n \in T : \A m \in T : n <= m
<1>1. IsWellFoundedOn(OpToRel(<, Nat), Nat)
  BY NatLessThanWellFounded
<1>2. PICK n \in T : \A m \in T : ~(<<m, n>> \in OpToRel(<, Nat))
  BY <1>1, WFMin
<1>3. ASSUME NEW m \in T  PROVE n <= m
  <2>1. ~(m < n)
    BY <1>2 DEF OpToRel
  <2> QED
    BY <2>1
<1> QED
  BY <1>3

LEMMA SequenceIs ==
    ASSUME NEW s, IsSequence(s)
    PROVE  /\ s \in Seq(ToSet(s)) /\ Len(s) \in Nat /\ DOMAIN s = 1 .. Len(s)
           /\ s = [i \in 1 .. Len(s) |-> s[i]]
BY DEF IsSequence

(* The beginnings of a sequence. *)
LEMMA PrefixIs ==
    ASSUME NEW p, IsSequence(p), NEW s, IsSequence(s)
    PROVE  IsPrefix(p, s) <=> \E i \in 0 .. Len(s) : SubSeq(s, 1, i) = p
<1>1. Len(p) \in Nat /\ Len(s) \in Nat /\ SubSeq(p, 1, Len(p)) = p
  BY DEF IsSequence
<1>2. ASSUME NEW i \in 0 .. Len(s), SubSeq(s, 1, i) = p  PROVE i = Len(p)
  <2>1. Len(SubSeq(s, 1, i)) = i
    BY <1>1 DEF IsSequence
  <2> QED
    BY <1>2, <2>1
<1>3. Len(p) <= Len(s) <=> Len(p) \in 0 .. Len(s)
  BY <1>1
<1> QED
  BY <1>1, <1>2, <1>3 DEF IsPrefix

LEMMA SubSeqIs ==
    ASSUME NEW s, IsSequence(s), NEW i \in 0 .. Len(s)
    PROVE  /\ SubSeq(s, i + 1, Len(s)) = [j \in 1 .. Len(s) - i |-> s[i + j]]
           /\ SubSeq(s, 1, i) = [j \in 1 .. i |-> s[j]]
<1>1. Len(s) \in Nat
  BY DEF IsSequence
<1> QED
  BY <1>1 DEF IsSequence

LEMMA ReverseIs ==
    ASSUME NEW s, IsSequence(s)
    PROVE  /\ IsSequence(Reverse(s)) /\ Len(Reverse(s)) = Len(s)
           /\ \A i \in 1 .. Len(s) : Reverse(s)[i] = s[Len(s) - i + 1]
<1>1. Len(s) \in Nat /\ Reverse(s) = [i \in 1 .. Len(s) |-> s[(Len(s) - i) + 1]]
  BY DEF IsSequence, Reverse
<1>2. Reverse(s) \in Seq(ToSet(Reverse(s))) /\ Len(Reverse(s)) = Len(s)
  BY <1>1 DEF ToSet
<1> QED
  BY <1>1, <1>2 DEF IsSequence

(* The proper ends of a name. *)
LEMMA SuffixIs ==
    ASSUME NEW m, IsSequence(m), m # <<>>, NEW n, IsSequence(n)
    PROVE  IsStrictSuffix(m, n) <=> Below(n, m)
<1>1. /\ Len(m) \in Nat /\ Len(n) \in Nat /\ Len(m) # 0
      /\ m = [i \in 1 .. Len(m) |-> m[i]] /\ n = [i \in 1 .. Len(n) |-> n[i]]
  BY SequenceIs DEF IsSequence
<1>0. Len(m) \in Nat /\ Len(n) \in Nat /\ Len(m) # 0
  BY <1>1
<1>2. ASSUME IsStrictSuffix(m, n)  PROVE Below(n, m)
  <2>1. m # n /\ Len(m) <= Len(n) /\ SubSeq(Reverse(m), 1, Len(m)) = SubSeq(Reverse(n), 1, Len(m))
    BY <1>2, ReverseIs DEF IsStrictSuffix, IsSuffix, IsPrefix
  <2>2. ASSUME NEW j \in 1 .. Len(m)  PROVE m[Len(m) - j + 1] = n[Len(n) - j + 1]
    <3>1. SubSeq(Reverse(m), 1, Len(m))[j] = SubSeq(Reverse(n), 1, Len(m))[j]
      BY <2>1
    <3>2. /\ SubSeq(Reverse(m), 1, Len(m))[j] = Reverse(m)[j]
          /\ SubSeq(Reverse(n), 1, Len(m))[j] = Reverse(n)[j]
      BY <1>1, <2>1, SubSeqIs, ReverseIs
    <3>3. j \in 1 .. Len(n)
      BY <1>0, <2>1
    <3> QED
      BY <3>1, <3>2, <3>3, ReverseIs
  <2> DEFINE i == Len(n) - Len(m)
  <2>3. ASSUME NEW j \in 1 .. Len(m)  PROVE m[j] = n[i + j]
    <3> DEFINE h == Len(m) - j + 1
    <3>1. h \in 1 .. Len(m) /\ Len(m) - h + 1 = j /\ Len(n) - h + 1 = i + j
      BY <1>1
    <3> HIDE DEF h
    <3> QED
      BY <2>2, <3>1
  <2>4. i # 0
    <3> SUFFICES ASSUME i = 0  PROVE FALSE
      OBVIOUS
    <3>1. Len(m) = Len(n) /\ \A j \in 1 .. Len(m) : m[j] = n[j]
      BY <1>1, <2>3
    <3> QED
      BY <1>1, <2>1, <3>1
  <2>5. i \in 1 .. Len(n) - 1 /\ i \in 0 .. Len(n) /\ Len(n) - i = Len(m)
    BY <1>0, <2>1, <2>4
  <2> HIDE DEF i
  <2>6. SubSeq(n, i + 1, Len(n)) = [j \in 1 .. Len(m) |-> n[i + j]]
    BY <2>5, SubSeqIs
  <2>7. SubSeq(n, i + 1, Len(n)) = m
    BY <1>1, <2>3, <2>6
  <2> QED
    BY <2>5, <2>7 DEF Below
<1>3. ASSUME Below(n, m)  PROVE IsStrictSuffix(m, n)
  <2>1. PICK i \in 1 .. Len(n) - 1 : SubSeq(n, i + 1, Len(n)) = m
    BY <1>3 DEF Below
  <2>0. i \in 0 .. Len(n) /\ Len(n) - i \in Nat
    BY <1>0, <2>1
  <2>2. m = [j \in 1 .. Len(n) - i |-> n[i + j]]
    BY <2>0, <2>1, SubSeqIs
  <2>3. Len(m) = Len(n) - i
    BY <2>0, <2>2
  <2>4. m # n /\ Len(m) <= Len(n)
    BY <1>1, <2>1, <2>3
  <2>5. ASSUME NEW j \in 1 .. Len(m)  PROVE Reverse(m)[j] = Reverse(n)[j]
    <3>1. Len(m) - j + 1 \in 1 .. Len(m) /\ i + (Len(m) - j + 1) = Len(n) - j + 1
      BY <1>1, <2>1, <2>3
    <3>2. m[Len(m) - j + 1] = n[Len(n) - j + 1]
      BY <2>2, <2>3, <3>1
    <3>3. j \in 1 .. Len(n)
      BY <1>1, <2>4
    <3> QED
      BY <3>2, <3>3, ReverseIs
  <2>6. SubSeq(Reverse(m), 1, Len(m)) = SubSeq(Reverse(n), 1, Len(m))
    <3>1. /\ SubSeq(Reverse(m), 1, Len(m)) = [j \in 1 .. Len(m) |-> Reverse(m)[j]]
          /\ SubSeq(Reverse(n), 1, Len(m)) = [j \in 1 .. Len(m) |-> Reverse(n)[j]]
      BY <1>1, <2>4, ReverseIs, SubSeqIs
    <3> QED
      BY <2>5, <3>1
  <2> QED
    BY <2>4, <2>6, ReverseIs DEF IsStrictSuffix, IsSuffix, IsPrefix
<1> QED
  BY <1>2, <1>3

(* What a pattern covers, said in two ways. *)
LEMMA PatternCovers ==
    ASSUME NEW p, IsPattern(p), NEW n, IsSequence(n)
    PROVE  NameMatches(p, n) <=> IF p.wild THEN Below(n, p.name) ELSE n = p.name
BY SuffixIs DEF IsPattern, NameMatches

-----------------------------------------------------------------------------
(* Routes. *)

(* What claims a request and what the code matches is the same. *)
LEMMA MatchesIsClaims ==
    ASSUME NEW r, IsRoute(r), NEW q, IsSequence(q.host), IsSequence(q.path)
    PROVE  Matches(r, q) <=> Claims(r, q)
<1>1. (\E p \in r.prefixes : IsPrefix(p, q.path))
        <=> \E i \in 0 .. Len(q.path) : SubSeq(q.path, 1, i) \in r.prefixes
  <2>1. ASSUME NEW p \in r.prefixes
        PROVE  IsPrefix(p, q.path) <=> \E i \in 0 .. Len(q.path) : SubSeq(q.path, 1, i) = p
    BY PrefixIs DEF IsRoute
  <2> QED
    BY <2>1
<1>2. HostMatches(r.hosts, q.host)
        <=> \E h \in r.hosts :
              ~h.port /\ (IF h.pattern.wild THEN Below(q.host, h.pattern.name)
                                            ELSE q.host = h.pattern.name)
  <2>1. ASSUME NEW h \in r.hosts
        PROVE  NameMatches(h.pattern, q.host)
                 <=> IF h.pattern.wild THEN Below(q.host, h.pattern.name)
                                       ELSE q.host = h.pattern.name
    BY PatternCovers DEF IsRoute
  <2> QED
    BY <2>1 DEF HostMatches
<1> QED
  BY <1>1, <1>2 DEF Matches, Claims

(* Match is the first route that matches. *)
LEMMA MatchIsFirst ==
    ASSUME NEW S, NEW rs \in Seq(S), NEW q
    PROVE  IF Match(rs, q) = 0 THEN \A i \in DOMAIN rs : ~Matches(rs[i], q)
           ELSE Match(rs, q) \in DOMAIN rs /\ FirstMatch(rs, q, Match(rs, q))
<1>1. DOMAIN rs = 1 .. Len(rs) /\ Len(rs) \in Nat
  OBVIOUS
<1> DEFINE hits == {i \in DOMAIN rs : Matches(rs[i], q)}
<1>2. CASE hits = {}
  <2>1. ~\E i \in DOMAIN rs : FirstMatch(rs, q, i)
    BY <1>2 DEF FirstMatch
  <2>2. Match(rs, q) = 0
    BY <2>1 DEF Match
  <2> QED
    BY <1>2, <2>2
<1>3. CASE hits # {}
  <2>1. hits \subseteq Nat
    BY <1>1
  <2> HIDE DEF hits
  <2>2. PICK n \in hits : \A m \in hits : n <= m
    BY <1>3, <2>1, NatMin
  <2> USE DEF hits
  <2>3. \A j \in 1 .. n - 1 : j \in DOMAIN rs /\ ~(n <= j)
    BY <1>1, <2>2
  <2>4. n \in DOMAIN rs /\ FirstMatch(rs, q, n)
    BY <2>2, <2>3 DEF FirstMatch
  <2>5. Match(rs, q) \in DOMAIN rs /\ FirstMatch(rs, q, Match(rs, q))
    BY <2>4 DEF Match
  <2> QED
    BY <1>1, <2>5
<1> QED
  BY <1>2, <1>3

(* What a start has loaded stays until the next one: routes as the file has *)
(* them and the patterns of each certificate in some order, and the request *)
(* is with whom Server gave it to.                                          *)
ChoiceInv ==
    /\ \A i \in DOMAIN routes : IsRoute(routes[i])
    /\ running => orders \in Orderings
    /\ by # Idle => request \in RouteRequests /\ by = Server(routes, request)

LEMMA ChoiceInit == Init => ChoiceInv
<1> SUFFICES ASSUME Init  PROVE ChoiceInv
  OBVIOUS
<1>1. routes = <<>> /\ running = FALSE /\ by = Idle
  BY DEF Init, RouteInit
<1> QED
  BY <1>1 DEF ChoiceInv

LEMMA ChoiceStays == ChoiceInv /\ UNCHANGED <<naming, serving>> => ChoiceInv'
BY DEF ChoiceInv, naming, serving, Orderings

LEMMA ChoiceEnds == ChoiceInv /\ Served => ChoiceInv'
BY DEF ChoiceInv, Served, naming, Orderings

LEMMA ChoiceRoute ==
    ASSUME HandlerInv, ChoiceInv, RouteNext
    PROVE  ChoiceInv'
<1>1. by' = Idle
  BY DEF RouteNext, StartEdge, StopEdge, serving, HandlerInv
<1>2. CASE \E f \in RouteFiles : StartEdge(f)
  <2>1. PICK f \in RouteFiles : StartEdge(f)
    BY <1>2
  <2>2. routes' = f /\ orders' \in Orderings
    BY <2>1 DEF StartEdge
  <2>3. \A i \in DOMAIN routes' : IsRoute(routes'[i])
    BY <2>2, RouteAssumption
  <2> QED
    BY <1>1, <2>2, <2>3 DEF ChoiceInv, Orderings
<1>3. CASE StopEdge
  <2>1. routes' = <<>> /\ running' = FALSE
    BY <1>3 DEF StopEdge
  <2> QED
    BY <1>1, <2>1 DEF ChoiceInv
<1> QED
  BY <1>2, <1>3 DEF RouteNext

LEMMA ChoiceServe ==
    ASSUME ChoiceInv, NEW q \in RouteRequests, Serve(q)
    PROVE  ChoiceInv'
BY DEF ChoiceInv, Serve, naming, Orderings, Server, Match, FirstMatch

LEMMA ChoiceStep == HandlerInv /\ ChoiceInv /\ [Next]_vars => ChoiceInv'
<1> SUFFICES ASSUME HandlerInv, ChoiceInv, [Next]_vars  PROVE ChoiceInv'
  OBVIOUS
<1>1. CASE UNCHANGED vars
  BY <1>1, ChoiceStays DEF vars
<1>2. CASE Next
  <2>1. CASE RouteNext
    BY <2>1, ChoiceRoute
  <2>2. CASE \E q \in RouteRequests : Serve(q)
    BY <2>2, ChoiceServe
  <2>3. CASE UNCHANGED <<naming, serving>>
    BY <2>3, ChoiceStays
  <2>4. CASE Served
    BY <2>4, ChoiceEnds
  <2> QED
    BY <1>2, <2>1, <2>2, <2>3, <2>4
       DEF Next, InTunnel, InGzip, StartGzip, EndOfTunnel, EndOfGzip, PlainAnswer
<1> QED
  BY <1>1, <1>2

LEMMA ChoiceInvariant == Spec => [](HandlerInv /\ ChoiceInv)
<1>1. Init => HandlerInv /\ ChoiceInv
  BY HandlerInit, ChoiceInit
<1>2. HandlerInv /\ ChoiceInv /\ [Next]_vars => (HandlerInv /\ ChoiceInv)'
  BY HandlerStep, ChoiceStep
<1> QED
  BY <1>1, <1>2, PTL DEF Spec

(* A request goes to the first route that claims it, the site gets only     *)
(* what no route claims, and a tunnel is for an upgrade on a WebSocket      *)
(* route: whatever the routes, their hosts and their paths are.             *)
THEOREM FirstAlwaysServes == Spec => []ServedByFirst
<1>1. ASSUME HandlerInv, ChoiceInv  PROVE ServedByFirst
  <2>1. CASE by = Idle
    BY <2>1 DEF ServedByFirst, Idle
  <2>2. CASE by # Idle
    <3>1. request \in RouteRequests /\ by = Server(routes, request)
      BY <1>1, <2>2 DEF ChoiceInv
    <3>2. \A i \in DOMAIN routes : Matches(routes[i], request) <=> Claims(routes[i], request)
      BY <1>1, <3>1, RouteAssumption, MatchesIsClaims DEF ChoiceInv
    <3> DEFINE m == Match(routes, request)
    <3>3. IF m = 0 THEN \A i \in DOMAIN routes : ~Matches(routes[i], request)
          ELSE m \in DOMAIN routes /\ FirstMatch(routes, request, m)
      BY <1>1, MatchIsFirst DEF HandlerInv, RoutesAreSeq
    <3>4. \A i \in DOMAIN routes : \A j \in 1 .. i - 1 : j \in DOMAIN routes
      BY <1>1 DEF HandlerInv, RoutesAreSeq
    <3>5. by.who = "site" => m = 0
      BY <3>1 DEF Server
    <3>6. by.route # 0 => by.route = m
      BY <3>1 DEF Server
    <3>7. by.who = "tunnel" => m # 0 /\ by.route = m /\ Tunnels(routes[m], request)
      BY <3>1 DEF Server
    <3> HIDE DEF m
    <3>8. by.who = "site" => \A i \in DOMAIN routes : ~Claims(routes[i], request)
      BY <3>2, <3>3, <3>5
    <3>9. by.route # 0 =>
            /\ Claims(routes[by.route], request)
            /\ \A i \in 1 .. by.route - 1 : ~Claims(routes[i], request)
      BY <3>2, <3>3, <3>4, <3>6 DEF FirstMatch
    <3>10. by.who = "tunnel" => /\ request.upgrade /\ request.http1
                                /\ routes[by.route].protocol \in {"ws", "websocket"}
      BY <3>7 DEF Tunnels
    <3> QED
      BY <3>8, <3>9, <3>10 DEF ServedByFirst
  <2> QED
    BY <2>1, <2>2
<1> QED
  BY <1>1, ChoiceInvariant, PTL

-----------------------------------------------------------------------------
(* Certificates. *)

(* A first pair, by the certificate and then by the place in it. *)
LEMMA FirstPair ==
    ASSUME NEW c, c \subseteq Nat \X Nat, c # {}
    PROVE  \E p \in c : \A q \in c \ {p} : Before(p, q)
<1> DEFINE certs == {p[1] : p \in c}
<1>1. certs \subseteq Nat /\ certs # {}
  OBVIOUS
<1> HIDE DEF certs
<1>2. PICK i \in certs : \A d \in certs : i <= d
  BY <1>1, NatMin
<1> DEFINE places == {p[2] : p \in {q \in c : q[1] = i}}
<1>3. places \subseteq Nat /\ places # {}
  BY <1>2 DEF certs
<1> HIDE DEF places
<1>4. PICK j \in places : \A k \in places : j <= k
  BY <1>3, NatMin
<1>5. i \in Nat /\ j \in Nat
  BY <1>1, <1>2, <1>3, <1>4
<1>6. <<i, j>> \in c
  BY <1>4 DEF places
<1>7. ASSUME NEW q \in c, q # <<i, j>>  PROVE Before(<<i, j>>, q)
  <2>1. q = <<q[1], q[2]>> /\ q[1] \in Nat /\ q[2] \in Nat
    OBVIOUS
  <2>2. i <= q[1]
    BY <1>2 DEF certs
  <2>3. CASE q[1] = i
    <3>1. j <= q[2] /\ j # q[2]
      BY <1>4, <1>7, <2>1, <2>3 DEF places
    <3> QED
      BY <1>5, <2>1, <2>3, <3>1 DEF Before
  <2>4. CASE q[1] # i
    BY <1>5, <2>1, <2>2, <2>4 DEF Before
  <2> QED
    BY <2>3, <2>4
<1> QED
  BY <1>6, <1>7

(* The patterns of a start, in their order. *)
LEMMA OrderOfPatterns ==
    ASSUME NEW ord \in Orderings
    PROVE  /\ DOMAIN ord = DOMAIN Certificates
           /\ \A i \in DOMAIN ord : DOMAIN ord[i] \subseteq Nat /\ ToSet(ord[i]) = Certificates[i]
<1>1. /\ DOMAIN ord = DOMAIN Certificates
      /\ \A i \in DOMAIN ord : ToSet(ord[i]) = Certificates[i]
      /\ \A i \in DOMAIN ord : \E d \in DOMAIN Certificates : ord[i] \in SetToSeqs(Certificates[d])
  BY DEF Orderings
<1>2. ASSUME NEW S, NEW s \in SetToSeqs(S)  PROVE DOMAIN s \subseteq Nat
  BY DEF SetToSeqs
<1> QED
  BY <1>1, <1>2

LEMMA CoveringIs ==
    ASSUME NEW ord \in Orderings, NEW n, IsSequence(n)
    PROVE  /\ Covering(ord, n) \subseteq Nat \X Nat
           /\ \A p \in Covering(ord, n) : p[1] \in DOMAIN Certificates /\ CoveredBy(p[1], n)
           /\ \A d \in DOMAIN Certificates :
                 CoveredBy(d, n) => \E p \in Covering(ord, n) : p[1] = d
<1>1. /\ DOMAIN ord = DOMAIN Certificates
      /\ \A i \in DOMAIN ord : DOMAIN ord[i] \subseteq Nat /\ ToSet(ord[i]) = Certificates[i]
      /\ DOMAIN Certificates \subseteq Nat
  BY OrderOfPatterns, RouteAssumption DEF IsSequence
<1>2. ASSUME NEW d \in DOMAIN Certificates
      PROVE  CoveredBy(d, n) <=> \E j \in DOMAIN ord[d] : NameMatches(ord[d][j], n)
  <2>1. \A p \in Certificates[d] :
           NameMatches(p, n) <=> IF p.wild THEN Below(n, p.name) ELSE n = p.name
    BY RouteAssumption, PatternCovers
  <2>2. CoveredBy(d, n) <=> \E p \in Certificates[d] : NameMatches(p, n)
    BY <2>1 DEF CoveredBy
  <2>3. Certificates[d] = {ord[d][j] : j \in DOMAIN ord[d]}
    BY <1>1 DEF ToSet
  <2> QED
    BY <2>2, <2>3
<1>3. \A p : p \in Covering(ord, n) <=>
         \E i \in DOMAIN ord : \E j \in DOMAIN ord[i] : p = <<i, j>> /\ NameMatches(ord[i][j], n)
  BY DEF Covering
<1>4. Covering(ord, n) \subseteq Nat \X Nat
  BY <1>1, <1>3
<1>5. ASSUME NEW p \in Covering(ord, n)
      PROVE  p[1] \in DOMAIN Certificates /\ CoveredBy(p[1], n)
  BY <1>1, <1>2, <1>3
<1>6. ASSUME NEW d \in DOMAIN Certificates, CoveredBy(d, n)
      PROVE  \E p \in Covering(ord, n) : p[1] = d
  <2>1. PICK j \in DOMAIN ord[d] : NameMatches(ord[d][j], n)
    BY <1>2, <1>6
  <2>2. <<d, j>> \in Covering(ord, n)
    BY <1>1, <1>3, <2>1
  <2> QED
    BY <2>2
<1> QED
  BY <1>4, <1>5, <1>6

(* Whatever the order of the patterns, the certificate selected is the      *)
(* first that covers the name.                                              *)
LEMMA SelectIsFirst ==
    ASSUME NEW ord \in Orderings, NEW n, IsSequence(n)
    PROVE  LET c == Select(ord, n) IN
           IF c = 0 THEN n = NoName \/ \A d \in DOMAIN Certificates : ~CoveredBy(d, n)
           ELSE /\ n # NoName /\ CoveredBy(c, n)
                /\ \A d \in 1 .. c - 1 : ~CoveredBy(d, n)
<1> DEFINE C == Covering(ord, n)
           p == CHOOSE q \in C : \A o \in C \ {q} : Before(q, o)
<1>1. DOMAIN Certificates = 1 .. Len(Certificates) /\ Len(Certificates) \in Nat
  BY RouteAssumption DEF IsSequence
<1>2. Select(ord, n) = IF n = NoName \/ C = {} THEN 0 ELSE p[1]
  BY DEF Select
<1>3. CASE n = NoName \/ C = {}
  BY <1>2, <1>3, CoveringIs
<1>4. CASE ~(n = NoName \/ C = {})
  <2>1. p \in C /\ \A o \in C \ {p} : Before(p, o)
    <3> HIDE DEF C
    <3>1. \E q \in C : \A o \in C \ {q} : Before(q, o)
      BY <1>4, FirstPair, CoveringIs DEF C
    <3> QED
      BY <3>1
  <2> HIDE DEF p
  <2>2. p[1] \in DOMAIN Certificates /\ CoveredBy(p[1], n)
    BY <2>1, CoveringIs
  <2>3. ASSUME NEW d \in 1 .. p[1] - 1, CoveredBy(d, n)  PROVE FALSE
    <3>1. d \in DOMAIN Certificates /\ d < p[1]
      BY <1>1, <2>2
    <3>2. PICK o \in C : o[1] = d
      BY <2>3, <3>1, CoveringIs
    <3>3. Before(p, o)
      BY <2>1, <3>1, <3>2, <1>1, <2>2
    <3> QED
      BY <1>1, <2>2, <3>1, <3>2, <3>3 DEF Before
  <2>4. p[1] # 0 /\ Select(ord, n) = p[1]
    BY <1>1, <1>2, <1>4, <2>2
  <2> QED
    BY <1>4, <2>2, <2>3, <2>4
<1> QED
  BY <1>3, <1>4

(* A name gets the first certificate that covers it, at every start and in  *)
(* whatever order the patterns come out of their map.                       *)
THEOREM FirstAlwaysCovers == Spec => []FirstThatCovers
<1>1. ASSUME ChoiceInv  PROVE FirstThatCovers
  <2>1. running => orders \in Orderings
    BY <1>1 DEF ChoiceInv
  <2>2. \A n \in ServerNames : IsSequence(n)
    BY RouteAssumption
  <2> QED
    BY <2>1, <2>2, SelectIsFirst DEF FirstThatCovers
<1> QED
  BY <1>1, ChoiceInvariant, PTL
=============================================================================
