--------------------------- MODULE WsTunnelProofs ---------------------------
(***************************************************************************)
(* Lemmas about WsTunnel, for any number of bytes and any window.  The     *)
(* theorems are those of EdgeProofs, whose specification runs tunnels.     *)
(*                                                                         *)
(* d is the end that bytes go to, Other(d) the one they come from.         *)
(***************************************************************************)
EXTENDS WsTunnel, SequenceTheorems, TLAPS

(* s is the bytes after p, in their order. *)
Counts(s, p) == \A i \in 1 .. Len(s) : s[i] = p + i

Skipped(d) == IF d = "client" THEN lost ELSE 0
Ahead(e) == IF e = "client" THEN early ELSE <<>>
Passed(d) == Skipped(d) + Len(got[d]) + Len(outbox[d])

Delivered(d) == Counts(got[d], Skipped(d)) /\ Counts(outbox[d], Skipped(d) + Len(got[d]))

(* What the proxy has still to read or to pass on continues what it has     *)
(* passed on, up to the last byte sent.                                     *)
OnTheWay(d) ==
    end[d] # "gone" /\ stage # "closed" =>
       /\ Counts(Ahead(Other(d)), Passed(d))
       /\ Counts(inbox[Other(d)], Passed(d) + Len(Ahead(Other(d))))
       /\ end[Other(d)] # "gone" =>
             Passed(d) + Len(Ahead(Other(d))) + Len(inbox[Other(d)]) = sent[Other(d)]

(* An end is told of the end of the stream when there is no more to come.   *)
Drained(d) ==
    /\ stage \in {"open", "closed"} /\ shut[d] # "open"
    /\ end[d] # "gone" /\ end[Other(d)] # "gone"
    => end[Other(d)] # "open" /\ inbox[Other(d)] = <<>> /\ Passed(d) = sent[Other(d)]

FlowInv == \A d \in Ends : Delivered(d) /\ OnTheWay(d) /\ Drained(d)

StageInv ==
    /\ stage # "open" => copying = {}
    /\ stage \notin {"open", "closed"} => got["client"] = <<>> /\ outbox["client"] = <<>>
    /\ stage \in {"none", "dialing", "asking"} => lost = 0
    /\ stage # "flushing" => early = <<>>
    /\ stage = "open" => \A e \in Ends \ copying : shut[Other(e)] # "open"
    /\ stage \notin {"open", "closed", "refused"} => shut = [e \in Ends |-> "open"]
    /\ stage = "closed" => shut = [e \in Ends |-> "closed"]
    /\ \A e \in Ends : Len(inbox[e]) <= sent[e]

TunnelInv == TunnelTypeOK /\ StageInv /\ FlowInv

-----------------------------------------------------------------------------
(* Runs of consecutive bytes. *)

LEMMA TakeCounts ==
    ASSUME NEW s \in Bytes, NEW n \in 0 .. Len(s), NEW p \in Nat
    PROVE  /\ Take(s, n) \in Bytes /\ Len(Take(s, n)) = n
           /\ Counts(s, p) => Counts(Take(s, n), p)
<1>1. /\ Take(s, n) \in Seq(1 .. MaxBytes) /\ Len(Take(s, n)) = n
      /\ \A i \in 1 .. n : Take(s, n)[i] = s[i]
  BY TunnelAssumption DEF Take, Bytes
<1> QED
  BY <1>1 DEF Bytes, Counts

LEMMA DropCounts ==
    ASSUME NEW s \in Bytes, NEW n \in 0 .. Len(s), NEW p \in Nat
    PROVE  /\ Drop(s, n) \in Bytes /\ Len(Drop(s, n)) = Len(s) - n
           /\ Counts(s, p) => Counts(Drop(s, n), p + n)
<1>1. /\ Drop(s, n) \in Seq(1 .. MaxBytes) /\ Len(Drop(s, n)) = Len(s) - n
      /\ \A i \in 1 .. Len(s) - n : Drop(s, n)[i] = s[n + i]
  BY TunnelAssumption DEF Drop, Bytes
<1>2. ASSUME Counts(s, p), NEW i \in 1 .. Len(s) - n  PROVE Drop(s, n)[i] = p + n + i
  <2>1. n + i \in 1 .. Len(s)
    BY DEF Bytes
  <2>2. s[n + i] = p + (n + i)
    BY <1>2, <2>1 DEF Counts
  <2> QED
    BY <1>1, <2>2
<1> QED
  BY <1>1, <1>2 DEF Bytes, Counts

LEMMA HeadCounts ==
    ASSUME NEW s \in Bytes, s # <<>>, NEW p \in Nat
    PROVE  /\ Head(s) \in 1 .. MaxBytes
           /\ Tail(s) \in Bytes /\ Len(Tail(s)) = Len(s) - 1 /\ Len(s) >= 1
           /\ Counts(s, p) => Head(s) = p + 1 /\ Counts(Tail(s), p + 1)
<1>1. /\ Head(s) = s[1] /\ Head(s) \in 1 .. MaxBytes /\ Len(s) \in Nat /\ Len(s) >= 1
      /\ Tail(s) \in Seq(1 .. MaxBytes) /\ Len(Tail(s)) = Len(s) - 1
      /\ \A i \in 1 .. Len(s) - 1 : Tail(s)[i] = s[i + 1]
  <2>1. s \in Seq(1 .. MaxBytes) /\ Len(s) \in Nat
    BY DEF Bytes
  <2>2. Len(s) >= 1
    <3>1. Len(s) # 0
      BY <2>1, EmptySeq
    <3> QED
      BY <2>1, <3>1
  <2>3. Head(s) = s[1]
    BY <2>1, <2>2
  <2> QED
    BY <2>1, <2>2, <2>3, HeadTailProperties
<1>2. ASSUME Counts(s, p), NEW i \in 1 .. Len(s) - 1  PROVE Tail(s)[i] = p + 1 + i
  <2>1. i + 1 \in 1 .. Len(s)
    BY <1>1
  <2> QED
    BY <1>1, <1>2, <2>1 DEF Counts
<1> QED
  BY <1>1, <1>2 DEF Bytes, Counts

LEMMA AppendCounts ==
    ASSUME NEW s \in Bytes, NEW b \in 1 .. MaxBytes, NEW p \in Nat
    PROVE  /\ Append(s, b) \in Bytes /\ Len(Append(s, b)) = Len(s) + 1
           /\ Counts(s, p) /\ b = p + Len(s) + 1 => Counts(Append(s, b), p)
<1>1. /\ Append(s, b) \in Seq(1 .. MaxBytes) /\ Len(Append(s, b)) = Len(s) + 1
      /\ Len(s) \in Nat
      /\ \A i \in 1 .. Len(s) + 1 : Append(s, b)[i] = IF i = Len(s) + 1 THEN b ELSE s[i]
  BY DEF Bytes
<1>2. ASSUME Counts(s, p), b = p + Len(s) + 1, NEW i \in 1 .. Len(s) + 1
      PROVE  Append(s, b)[i] = p + i
  <2>1. i = Len(s) + 1 \/ i \in 1 .. Len(s)
    BY <1>1
  <2>2. i \in 1 .. Len(s) => s[i] = p + i /\ i # Len(s) + 1
    BY <1>1, <1>2 DEF Counts
  <2> QED
    BY <1>1, <1>2, <2>1, <2>2
<1> QED
  BY <1>1, <1>2 DEF Bytes, Counts

LEMMA EmptyCounts ==
    ASSUME NEW p
    PROVE  <<>> \in Bytes /\ Len(<<>>) = 0 /\ Counts(<<>>, p)
BY DEF Bytes, Counts

LEMMA TwoEnds ==
    /\ \A e \in Ends : Other(e) \in Ends /\ Other(e) # e /\ Other(Other(e)) = e
    /\ \A d, e \in Ends : d = e \/ d = Other(e)
    /\ Other("client") = "backend" /\ Other("backend") = "client"
    /\ "client" \in Ends /\ "backend" \in Ends
BY DEF Ends, Other

LEMMA Lengths ==
    ASSUME TunnelTypeOK, NEW d \in Ends
    PROVE  /\ got[d] \in Bytes /\ outbox[d] \in Bytes /\ inbox[d] \in Bytes
           /\ Ahead(d) \in Bytes /\ early \in Bytes
           /\ Len(got[d]) \in Nat /\ Len(outbox[d]) \in Nat /\ Len(inbox[d]) \in Nat
           /\ Len(Ahead(d)) \in Nat /\ Skipped(d) \in Nat /\ Passed(d) \in Nat
           /\ sent[d] \in Nat
<1>1. /\ got[d] \in Bytes /\ outbox[d] \in Bytes /\ inbox[d] \in Bytes
      /\ Ahead(d) \in Bytes /\ early \in Bytes
      /\ Skipped(d) \in Nat /\ sent[d] \in Nat
  BY EmptyCounts, TunnelAssumption DEF TunnelTypeOK, Ahead, Skipped
<1>2. /\ Len(got[d]) \in Nat /\ Len(outbox[d]) \in Nat /\ Len(inbox[d]) \in Nat
      /\ Len(Ahead(d)) \in Nat
  BY <1>1 DEF Bytes
<1> QED
  BY <1>1, <1>2 DEF Passed

-----------------------------------------------------------------------------
(* The steps that move no byte. *)

LEMMA QuietStep ==
    ASSUME TunnelInv, UNCHANGED <<sent, inbox, early, outbox, got, lost>>,
           \A d \in Ends : end'[d] = "gone" <=> end[d] = "gone",
           stage' = "closed" <=> stage = "closed",
           NEW d \in Ends
    PROVE  /\ Delivered(d)' /\ OnTheWay(d)'
           /\ Passed(d)' = Passed(d)
<1>1. Other(d) \in Ends
  BY TwoEnds
<1>2. /\ Skipped(d)' = Skipped(d) /\ Passed(d)' = Passed(d)
      /\ Ahead(Other(d))' = Ahead(Other(d))
  BY DEF Skipped, Passed, Ahead
<1>3. Delivered(d) /\ OnTheWay(d)
  BY DEF TunnelInv, FlowInv
<1>4. Delivered(d)'
  BY <1>2, <1>3 DEF Delivered, Counts
<1>5. OnTheWay(d)'
  BY <1>1, <1>2, <1>3 DEF OnTheWay, Counts
<1> QED
  BY <1>2, <1>4, <1>5

LEMMA CloseEndInv ==
    ASSUME TunnelInv, NEW e \in Ends, CloseEnd(e)  PROVE TunnelInv'
<1>1. TunnelTypeOK'
  BY DEF CloseEnd, TunnelInv, TunnelTypeOK
<1>2. \A d \in Ends : (end'[d] = "gone" <=> end[d] = "gone") /\ (end[d] # "open" => end'[d] # "open")
  BY DEF CloseEnd, TunnelInv, TunnelTypeOK
<1>3. ASSUME NEW d \in Ends  PROVE Delivered(d)' /\ OnTheWay(d)' /\ Drained(d)'
  <2>1. Delivered(d)' /\ OnTheWay(d)' /\ Passed(d)' = Passed(d)
    BY <1>2, QuietStep DEF CloseEnd
  <2>2. Drained(d)'
    BY <1>2, <2>1, TwoEnds DEF CloseEnd, TunnelInv, FlowInv, Drained
  <2> QED
    BY <2>1, <2>2
<1>4. StageInv'
  BY DEF CloseEnd, TunnelInv, StageInv
<1> QED
  BY <1>1, <1>3, <1>4 DEF TunnelInv, FlowInv

LEMMA BeforeInv ==
    ASSUME TunnelInv, Open \/ Dial \/ \E r \in {"101", "other"} : Reply(r)
    PROVE  TunnelInv'
<1>1. /\ UNCHANGED <<peers, inbox, early, outbox, shut, copying, lost>>
      /\ stage \in {"none", "dialing", "asking"} /\ stage' \in {"dialing", "asking"}
      /\ reply' \in {"none", "101", "other"}
  BY DEF Open, Dial, Reply, TunnelInv, TunnelTypeOK
<1>2. TunnelTypeOK'
  BY <1>1 DEF peers, TunnelInv, TunnelTypeOK
<1>3. ASSUME NEW d \in Ends  PROVE Delivered(d)' /\ OnTheWay(d)' /\ Drained(d)'
  <2>1. Delivered(d)' /\ OnTheWay(d)'
    BY <1>1, QuietStep DEF peers
  <2> QED
    BY <1>1, <2>1 DEF Drained
<1>4. StageInv'
  BY <1>1 DEF peers, TunnelInv, StageInv
<1> QED
  BY <1>2, <1>3, <1>4 DEF TunnelInv, FlowInv

LEMMA RefuseInv ==
    ASSUME TunnelInv, DialFails \/ NoUpgrade \/ HijackFails  PROVE TunnelInv'
<1>1. stage \in {"dialing", "asking", "answered"} /\ Refuse
  BY DEF DialFails, NoUpgrade, HijackFails
<1>2. TunnelTypeOK'
  BY <1>1, TwoEnds DEF Refuse, peers, TunnelInv, TunnelTypeOK
<1>3. ASSUME NEW d \in Ends  PROVE Delivered(d)' /\ OnTheWay(d)' /\ Drained(d)'
  <2>1. Delivered(d)' /\ OnTheWay(d)'
    BY <1>1, QuietStep DEF Refuse, peers
  <2> QED
    BY <1>1, <2>1 DEF Drained, Refuse
<1>4. StageInv'
  BY <1>1 DEF Refuse, peers, TunnelInv, StageInv
<1> QED
  BY <1>2, <1>3, <1>4 DEF TunnelInv, FlowInv

LEMMA EndCopyInv ==
    ASSUME TunnelInv, NEW e \in Ends, EndCopy(e)  PROVE TunnelInv'
<1>1. /\ e \in copying /\ CopyEnds(e) /\ copying' = copying \ {e}
      /\ shut' = [shut EXCEPT ![Other(e)] = "half"]
      /\ UNCHANGED <<stage, reply, peers, inbox, early, outbox, lost>>
  BY DEF EndCopy, StopCopying
<1>2. stage = "open" /\ early = <<>>
  BY <1>1 DEF TunnelInv, StageInv
<1>3. TunnelTypeOK'
  BY <1>1, <1>2, TwoEnds DEF peers, TunnelInv, TunnelTypeOK
<1>4. ASSUME NEW d \in Ends  PROVE Delivered(d)' /\ OnTheWay(d)' /\ Drained(d)'
  <2>1. Delivered(d)' /\ OnTheWay(d)' /\ Passed(d)' = Passed(d)
    BY <1>1, QuietStep DEF peers
  <2>2. CASE d = Other(e)
    <3>1. Other(d) = e /\ Len(Ahead(e)) = 0
      BY <1>2, <2>2, TwoEnds, EmptyCounts DEF Ahead
    <3>2. /\ Passed(d) \in Nat
          /\ end[d] # "gone" /\ end[e] # "gone" => Passed(d) + 0 + Len(inbox[e]) = sent[e]
      BY <1>2, <3>1, Lengths DEF TunnelInv, FlowInv, OnTheWay
    <3>3. end[d] # "gone" => inbox[e] = <<>> /\ end[e] # "open"
      BY <1>1, <2>2 DEF CopyEnds
    <3>4. end[d] # "gone" /\ end[e] # "gone" => Passed(d) = sent[e]
      BY <3>2, <3>3, EmptyCounts
    <3> QED
      BY <1>1, <2>1, <3>1, <3>3, <3>4 DEF Drained, peers
  <2>3. CASE d = e
    <3>1. shut'[d] = shut[d]
      BY <1>1, <2>3, TwoEnds DEF TunnelInv, TunnelTypeOK
    <3> QED
      BY <1>1, <2>1, <3>1 DEF TunnelInv, FlowInv, Drained, peers
  <2> QED
    BY <2>2, <2>3, TwoEnds
<1>5. \A x \in Ends \ copying' : shut'[Other(x)] # "open"
  BY <1>1, <1>2, TwoEnds DEF TunnelInv, TunnelTypeOK, StageInv
<1>6. StageInv'
  BY <1>1, <1>2, <1>5 DEF peers, TunnelInv, StageInv
<1> QED
  BY <1>3, <1>4, <1>6 DEF TunnelInv, FlowInv

-----------------------------------------------------------------------------
(* The steps of the ends. *)

LEMMA SendInv ==
    ASSUME TunnelInv, NEW e \in Ends, Send(e)  PROVE TunnelInv'
<1>1. /\ sent[e] \in Nat /\ sent[e] + 1 \in 1 .. MaxBytes
      /\ sent' = [sent EXCEPT ![e] = sent[e] + 1]
      /\ inbox' = [inbox EXCEPT ![e] = Append(inbox[e], sent[e] + 1)]
  BY TunnelAssumption DEF Send, TunnelInv, TunnelTypeOK
<1>2. /\ Append(inbox[e], sent[e] + 1) \in Bytes
      /\ Len(Append(inbox[e], sent[e] + 1)) = Len(inbox[e]) + 1
      /\ \A p \in Nat : Counts(inbox[e], p) /\ sent[e] + 1 = p + Len(inbox[e]) + 1 =>
                          Counts(Append(inbox[e], sent[e] + 1), p)
  BY <1>1, AppendCounts, Lengths DEF TunnelInv
<1>3. TunnelTypeOK'
  BY <1>1, <1>2 DEF Send, TunnelInv, TunnelTypeOK
<1>4. end[e] = "open" /\ shut[e] # "closed"
  BY DEF Send, MaySend
<1>5. ASSUME NEW d \in Ends  PROVE Delivered(d)' /\ OnTheWay(d)' /\ Drained(d)'
  <2>1. /\ Skipped(d)' = Skipped(d) /\ Passed(d)' = Passed(d)
        /\ Ahead(Other(d))' = Ahead(Other(d))
    BY DEF Send, Skipped, Passed, Ahead
  <2>2. Delivered(d) /\ OnTheWay(d) /\ Drained(d)
    BY DEF TunnelInv, FlowInv
  <2>3. Delivered(d)'
    BY <2>1, <2>2 DEF Delivered, Counts, Send
  <2>4. CASE Other(d) = e
    <3>1. /\ Passed(d) \in Nat /\ Len(Ahead(e)) \in Nat /\ Len(inbox[e]) \in Nat
      BY Lengths DEF TunnelInv
    <3>2. sent'[e] = sent[e] + 1 /\ Len(inbox'[e]) = Len(inbox[e]) + 1
      BY <1>1, <1>2 DEF TunnelInv, TunnelTypeOK
    <3>3. ASSUME end[d] # "gone", stage # "closed"
          PROVE  /\ Counts(inbox'[e], Passed(d) + Len(Ahead(e)))
                 /\ Passed(d) + Len(Ahead(e)) + Len(inbox'[e]) = sent'[e]
      <4>1. /\ Passed(d) + Len(Ahead(e)) + Len(inbox[e]) = sent[e]
            /\ Counts(inbox[e], Passed(d) + Len(Ahead(e)))
        BY <1>4, <2>2, <2>4, <3>3 DEF OnTheWay
      <4>2. /\ Passed(d) + Len(Ahead(e)) \in Nat
            /\ sent[e] + 1 = Passed(d) + Len(Ahead(e)) + Len(inbox[e]) + 1
        BY <1>1, <3>1, <4>1
      <4>3. Counts(Append(inbox[e], sent[e] + 1), Passed(d) + Len(Ahead(e)))
        BY <1>2, <4>1, <4>2
      <4>4. inbox'[e] = Append(inbox[e], sent[e] + 1)
        BY <1>1 DEF TunnelInv, TunnelTypeOK
      <4> QED
        BY <1>1, <3>1, <3>2, <4>1, <4>3, <4>4
    <3>4. OnTheWay(d)'
      <4>1. UNCHANGED <<end, stage, early>>
        BY DEF Send
      <4> QED
        BY <2>1, <2>2, <2>4, <3>3, <4>1 DEF OnTheWay, Counts
    <3>5. Drained(d)'
      BY <1>4, <2>2, <2>4 DEF Drained, Send
    <3> QED
      BY <2>3, <3>4, <3>5
  <2>5. CASE Other(d) # e
    <3>1. sent'[Other(d)] = sent[Other(d)] /\ inbox'[Other(d)] = inbox[Other(d)]
      BY <1>1, <2>5, TwoEnds DEF TunnelInv, TunnelTypeOK
    <3> QED
      BY <2>1, <2>2, <2>3, <3>1 DEF OnTheWay, Drained, Counts, Send
  <2> QED
    BY <2>4, <2>5
<1>6. StageInv'
  <2>1. \A d \in Ends : Len(inbox[d]) \in Nat /\ sent[d] \in Nat
    BY Lengths DEF TunnelInv
  <2>2. \A d \in Ends : Len(inbox'[d]) <= sent'[d]
    BY <1>1, <1>2, <2>1 DEF TunnelInv, TunnelTypeOK, StageInv
  <2> QED
    BY <2>2 DEF Send, TunnelInv, StageInv
<1> QED
  BY <1>3, <1>5, <1>6 DEF TunnelInv, FlowInv

LEMMA VanishInv ==
    ASSUME TunnelInv, NEW e \in Ends, Vanish(e)  PROVE TunnelInv'
<1>1. PICK n \in 0 .. Len(inbox[e]) : inbox' = [inbox EXCEPT ![e] = Take(@, n)]
  BY DEF Vanish
<1>2. /\ end' = [end EXCEPT ![e] = "gone"] /\ outbox' = [outbox EXCEPT ![e] = <<>>]
      /\ UNCHANGED <<stage, reply, sent, got, early, shut, copying, lost>>
  BY DEF Vanish
<1>3. /\ Take(inbox[e], n) \in Bytes /\ Len(Take(inbox[e], n)) = n
      /\ \A p \in Nat : Counts(inbox[e], p) => Counts(Take(inbox[e], n), p)
  BY TakeCounts, Lengths DEF TunnelInv
<1>4. inbox'[e] = Take(inbox[e], n) /\ \A d \in Ends : d # e => inbox'[d] = inbox[d]
  BY <1>1 DEF TunnelInv, TunnelTypeOK
<1>5. /\ end'[e] = "gone" /\ outbox'[e] = <<>>
      /\ \A d \in Ends : d # e => end'[d] = end[d] /\ outbox'[d] = outbox[d]
  BY <1>2 DEF TunnelInv, TunnelTypeOK
<1>6. TunnelTypeOK'
  BY <1>1, <1>2, <1>3, EmptyCounts DEF TunnelInv, TunnelTypeOK
<1>7. ASSUME NEW d \in Ends  PROVE Delivered(d)' /\ OnTheWay(d)' /\ Drained(d)'
  <2>1. Delivered(d) /\ OnTheWay(d) /\ Drained(d)
    BY DEF TunnelInv, FlowInv
  <2>2. CASE d = e
    <3>1. Delivered(d)'
      BY <1>2, <1>5, <2>1, <2>2, EmptyCounts DEF Delivered, Skipped, Counts
    <3> QED
      BY <1>5, <2>2, <3>1 DEF OnTheWay, Drained
  <2>3. CASE d = Other(e)
    <3>1. /\ Other(d) = e /\ outbox'[d] = outbox[d] /\ end'[d] = end[d]
          /\ Skipped(d)' = Skipped(d) /\ Ahead(e)' = Ahead(e)
      BY <1>2, <1>5, <2>3, TwoEnds DEF Skipped, Ahead
    <3>2. Passed(d)' = Passed(d) /\ Delivered(d)'
      BY <1>2, <2>1, <3>1 DEF Passed, Delivered, Counts
    <3>3. Passed(d) + Len(Ahead(e)) \in Nat
      BY Lengths DEF TunnelInv
    <3>4. OnTheWay(d)'
      <4>1. ASSUME end[d] # "gone", stage # "closed"
            PROVE  Counts(inbox'[e], Passed(d) + Len(Ahead(e)))
        BY <1>3, <1>4, <2>1, <3>1, <3>3, <4>1 DEF OnTheWay
      <4> QED
        BY <1>2, <1>5, <2>1, <3>1, <3>2, <4>1 DEF OnTheWay, Counts
    <3> QED
      BY <1>5, <3>1, <3>2, <3>4 DEF Drained
  <2> QED
    BY <2>2, <2>3, TwoEnds
<1>8. StageInv'
  <2>1. \A d \in Ends : Len(inbox[d]) \in Nat /\ sent[d] \in Nat /\ Len(inbox[d]) <= sent[d]
    BY Lengths DEF TunnelInv, StageInv
  <2>2. \A d \in Ends : Len(inbox'[d]) <= sent'[d]
    BY <1>2, <1>3, <1>4, <2>1
  <2>3. outbox["client"] = <<>> => outbox'["client"] = <<>>
    BY <1>5, TwoEnds
  <2> QED
    BY <1>2, <2>2, <2>3 DEF TunnelInv, StageInv
<1> QED
  BY <1>6, <1>7, <1>8 DEF TunnelInv, FlowInv

LEMMA ReadInv ==
    ASSUME TunnelInv, NEW e \in Ends, Read(e)  PROVE TunnelInv'
<1>1. /\ outbox[e] # <<>>
      /\ got' = [got EXCEPT ![e] = Append(got[e], Head(outbox[e]))]
      /\ outbox' = [outbox EXCEPT ![e] = Tail(outbox[e])]
      /\ UNCHANGED <<stage, reply, end, sent, inbox, early, shut, copying, lost>>
  BY DEF Read
<1>2. /\ got[e] \in Bytes /\ outbox[e] \in Bytes
      /\ Skipped(e) \in Nat /\ Len(got[e]) \in Nat /\ Len(outbox[e]) \in Nat
  BY Lengths DEF TunnelInv
<1>3. Counts(got[e], Skipped(e)) /\ Counts(outbox[e], Skipped(e) + Len(got[e]))
  BY DEF TunnelInv, FlowInv, Delivered
<1>4. /\ Head(outbox[e]) \in 1 .. MaxBytes /\ Tail(outbox[e]) \in Bytes
      /\ Len(Tail(outbox[e])) = Len(outbox[e]) - 1
      /\ Head(outbox[e]) = Skipped(e) + Len(got[e]) + 1
      /\ Counts(Tail(outbox[e]), Skipped(e) + Len(got[e]) + 1)
  BY <1>1, <1>2, <1>3, HeadCounts
<1>5. /\ Append(got[e], Head(outbox[e])) \in Bytes
      /\ Len(Append(got[e], Head(outbox[e]))) = Len(got[e]) + 1
      /\ Counts(Append(got[e], Head(outbox[e])), Skipped(e))
  BY <1>2, <1>3, <1>4, AppendCounts
<1>6. TunnelTypeOK'
  BY <1>1, <1>4, <1>5 DEF TunnelInv, TunnelTypeOK
<1>7. /\ got'[e] = Append(got[e], Head(outbox[e])) /\ outbox'[e] = Tail(outbox[e])
      /\ \A d \in Ends : d # e => got'[d] = got[d] /\ outbox'[d] = outbox[d]
  BY <1>1 DEF TunnelInv, TunnelTypeOK
<1>8. ASSUME NEW d \in Ends  PROVE Delivered(d)' /\ OnTheWay(d)' /\ Drained(d)'
  <2>1. Delivered(d) /\ OnTheWay(d) /\ Drained(d)
    BY DEF TunnelInv, FlowInv
  <2>2. Skipped(d)' = Skipped(d) /\ Ahead(Other(d))' = Ahead(Other(d))
    BY <1>1 DEF Skipped, Ahead
  <2>3. Passed(d)' = Passed(d) /\ Delivered(d)'
    <3>1. CASE d = e
      <4>1. Skipped(d) + (Len(got[e]) + 1) = Skipped(e) + Len(got[e]) + 1
        BY <1>2, <3>1
      <4>2. Delivered(d)'
        <5>1. Delivered(d)' <=> /\ Counts(got'[d], Skipped(d)')
                                /\ Counts(outbox'[d], Skipped(d)' + Len(got'[d]))
          BY DEF Delivered, Counts
        <5> QED
          BY <1>4, <1>5, <1>7, <2>2, <3>1, <4>1, <5>1
      <4>3. Passed(d)' = Passed(d)
        <5>1. /\ Passed(d)' = Skipped(d)' + Len(got'[d]) + Len(outbox'[d])
              /\ Passed(d) = Skipped(d) + Len(got[d]) + Len(outbox[d])
          BY DEF Passed
        <5>2. /\ Skipped(d)' = Skipped(e) /\ Len(got'[d]) = Len(got[e]) + 1
              /\ Len(outbox'[d]) = Len(outbox[e]) - 1
          BY <1>4, <1>5, <1>7, <2>2, <3>1
        <5> QED
          BY <1>2, <3>1, <5>1, <5>2
      <4> QED
        BY <4>2, <4>3
    <3>2. CASE d # e
      BY <1>7, <2>1, <2>2, <3>2 DEF Passed, Delivered, Counts
    <3> QED
      BY <3>1, <3>2
  <2> QED
    BY <1>1, <2>1, <2>2, <2>3 DEF OnTheWay, Drained, Counts
<1>9. StageInv'
  <2>1. outbox["client"] = <<>> => e # "client"
    BY <1>1
  <2>2. /\ outbox["client"] = <<>> => outbox'["client"] = <<>>
        /\ outbox["client"] = <<>> => got'["client"] = got["client"]
    BY <1>7, <2>1, TwoEnds
  <2> QED
    BY <1>1, <2>2 DEF TunnelInv, StageInv
<1> QED
  BY <1>6, <1>8, <1>9 DEF TunnelInv, FlowInv

-----------------------------------------------------------------------------
(* The steps of the handler that move bytes. *)

LEMMA ReadHeaderInv ==
    ASSUME TunnelInv, ReadHeader  PROVE TunnelInv'
<1>1. PICK n \in 0 .. Len(inbox["backend"]) :
         lost' = n /\ inbox' = [inbox EXCEPT !["backend"] = Drop(@, n)]
  BY DEF ReadHeader
<1>2. /\ stage = "asking" /\ stage' = "answered"
      /\ UNCHANGED <<reply, end, sent, got, early, outbox, shut, copying>>
  BY DEF ReadHeader, peers
<1>3. lost = 0 /\ got["client"] = <<>> /\ outbox["client"] = <<>>
  BY <1>2 DEF TunnelInv, StageInv
<1>4. /\ inbox["backend"] \in Bytes /\ Len(inbox["backend"]) \in Nat
      /\ Len(inbox["backend"]) <= sent["backend"] /\ sent["backend"] \in 0 .. MaxBytes
  BY TwoEnds, Lengths DEF TunnelInv, StageInv, TunnelTypeOK
<1>5. /\ Drop(inbox["backend"], n) \in Bytes
      /\ Len(Drop(inbox["backend"], n)) = Len(inbox["backend"]) - n
      /\ Counts(inbox["backend"], 0) => Counts(Drop(inbox["backend"], n), n)
  BY <1>4, DropCounts
<1>6. n \in 0 .. MaxBytes
  BY <1>4, TunnelAssumption
<1>7. TunnelTypeOK'
  BY <1>1, <1>2, <1>5, <1>6 DEF TunnelInv, TunnelTypeOK
<1>8. inbox'["backend"] = Drop(inbox["backend"], n) /\ inbox'["client"] = inbox["client"]
  BY <1>1, TwoEnds DEF TunnelInv, TunnelTypeOK
<1>9. ASSUME NEW d \in Ends  PROVE Delivered(d)' /\ OnTheWay(d)' /\ Drained(d)'
  <2>1. Delivered(d) /\ OnTheWay(d)
    BY DEF TunnelInv, FlowInv
  <2>2. CASE d = "client"
    <3>1. /\ Other(d) = "backend" /\ Skipped(d) = 0 /\ Skipped(d)' = n
          /\ Len(got[d]) = 0 /\ Len(outbox[d]) = 0
          /\ Ahead("backend") = <<>> /\ Ahead("backend")' = <<>> /\ Len(<<>>) = 0
      BY <1>1, <1>3, <2>2, TwoEnds, EmptyCounts DEF Skipped, Ahead
    <3>2. Passed(d) = 0 /\ Passed(d)' = n
      BY <1>2, <3>1 DEF Passed
    <3>3. Delivered(d)'
      BY <1>2, <3>1 DEF Delivered, Counts
    <3>4. end[d] # "gone" =>
             /\ Counts(inbox["backend"], 0)
             /\ end["backend"] # "gone" => Len(inbox["backend"]) = sent["backend"]
      BY <1>2, <1>4, <2>1, <3>1, <3>2 DEF OnTheWay
    <3>5. end[d] # "gone" =>
             /\ Counts(inbox'["backend"], n + 0)
             /\ end["backend"] # "gone" => n + 0 + Len(inbox'["backend"]) = sent["backend"]
      BY <1>4, <1>5, <1>8, <3>4
    <3>6. OnTheWay(d)'
      <4>1. /\ OnTheWay(d)' <=>
                (end'[d] # "gone" /\ stage' # "closed" =>
                   /\ Counts(Ahead("backend")', Passed(d)')
                   /\ Counts(inbox'["backend"], Passed(d)' + Len(Ahead("backend")'))
                   /\ end'["backend"] # "gone" =>
                         Passed(d)' + Len(Ahead("backend")') + Len(inbox'["backend"])
                            = sent'["backend"])
            /\ Counts(Ahead("backend")', n)
        BY <3>1, EmptyCounts DEF OnTheWay, Counts
      <4> QED
        BY <1>2, <3>1, <3>2, <3>5, <4>1
    <3> QED
      BY <1>2, <3>3, <3>6 DEF Drained
  <2>3. CASE d = "backend"
    <3>1. /\ Other(d) = "client" /\ Skipped(d)' = Skipped(d) /\ Ahead("client")' = Ahead("client")
      BY <1>2, <2>3, TwoEnds DEF Skipped, Ahead
    <3> QED
      BY <1>2, <1>8, <2>1, <3>1 DEF Delivered, OnTheWay, Drained, Passed, Counts
  <2> QED
    BY <2>2, <2>3 DEF Ends
<1>10. StageInv'
  <2>1. \A d \in Ends : Len(inbox'[d]) <= sent'[d]
    BY <1>2, <1>4, <1>5, <1>8 DEF TunnelInv, StageInv, Ends
  <2> QED
    BY <1>2, <2>1 DEF TunnelInv, StageInv
<1> QED
  BY <1>7, <1>9, <1>10 DEF TunnelInv, FlowInv

LEMMA HijackInv ==
    ASSUME TunnelInv, Hijack  PROVE TunnelInv'
<1>1. PICK n \in 0 .. Len(inbox["client"]) :
         /\ early' = Take(inbox["client"], n)
         /\ inbox' = [inbox EXCEPT !["client"] = Drop(@, n)]
  BY DEF Hijack
<1>2. /\ stage = "answered" /\ stage' = "flushing"
      /\ UNCHANGED <<reply, end, sent, got, outbox, shut, copying, lost>>
  BY DEF Hijack, peers
<1>3. early = <<>>
  BY <1>2 DEF TunnelInv, StageInv
<1>4. inbox["client"] \in Bytes /\ Len(inbox["client"]) \in Nat
  BY TwoEnds, Lengths DEF TunnelInv
<1>5. /\ early' \in Bytes /\ Len(early') = n
      /\ \A p \in Nat : Counts(inbox["client"], p) => Counts(early', p)
  BY <1>1, <1>4, TakeCounts
<1>6. /\ Drop(inbox["client"], n) \in Bytes
      /\ Len(Drop(inbox["client"], n)) = Len(inbox["client"]) - n
      /\ \A p \in Nat : Counts(inbox["client"], p) => Counts(Drop(inbox["client"], n), p + n)
  BY <1>4, DropCounts
<1>7. TunnelTypeOK'
  BY <1>1, <1>2, <1>5, <1>6 DEF TunnelInv, TunnelTypeOK
<1>8. inbox'["client"] = Drop(inbox["client"], n) /\ inbox'["backend"] = inbox["backend"]
  BY <1>1, TwoEnds DEF TunnelInv, TunnelTypeOK
<1>9. ASSUME NEW d \in Ends  PROVE Delivered(d)' /\ OnTheWay(d)' /\ Drained(d)'
  <2>1. Delivered(d) /\ OnTheWay(d)
    BY DEF TunnelInv, FlowInv
  <2>2. Skipped(d)' = Skipped(d) /\ Passed(d)' = Passed(d) /\ Passed(d) \in Nat
    BY <1>2, Lengths DEF Skipped, Passed, TunnelInv
  <2>3. Delivered(d)'
    BY <1>2, <2>1, <2>2 DEF Delivered, Counts
  <2>4. CASE d = "client"
    <3>1. Other(d) = "backend" /\ Ahead("backend")' = Ahead("backend")
      BY <2>4, TwoEnds DEF Ahead
    <3> QED
      BY <1>2, <1>8, <2>1, <2>2, <2>3, <3>1 DEF OnTheWay, Drained, Counts
  <2>5. CASE d = "backend"
    <3>1. /\ Other(d) = "client" /\ Ahead("client") = <<>> /\ Ahead("client")' = early'
          /\ Len(<<>>) = 0
      BY <1>3, <2>5, TwoEnds, EmptyCounts DEF Ahead
    <3>2. end[d] # "gone" =>
             /\ Counts(inbox["client"], Passed(d))
             /\ end["client"] # "gone" => Passed(d) + Len(inbox["client"]) = sent["client"]
      BY <1>2, <1>4, <2>1, <2>2, <3>1 DEF OnTheWay
    <3>3. end[d] # "gone" =>
             /\ Counts(early', Passed(d)) /\ Counts(inbox'["client"], Passed(d) + n)
             /\ end["client"] # "gone" =>
                   Passed(d) + n + Len(inbox'["client"]) = sent["client"]
      BY <1>4, <1>5, <1>6, <1>8, <2>2, <3>2
    <3>4. OnTheWay(d)'
      BY <1>2, <1>5, <2>2, <3>1, <3>3 DEF OnTheWay, Counts
    <3> QED
      BY <1>2, <2>3, <3>4 DEF Drained
  <2> QED
    BY <2>4, <2>5 DEF Ends
<1>10. StageInv'
  <2>1. \A d \in Ends : Len(inbox[d]) \in Nat /\ sent[d] \in Nat /\ Len(inbox[d]) <= sent[d]
    BY Lengths DEF TunnelInv, StageInv
  <2>2. Len(inbox'["client"]) <= sent["client"]
    BY <1>6, <1>8, <2>1, TwoEnds
  <2>3. \A d \in Ends : Len(inbox'[d]) <= sent'[d]
    BY <1>2, <1>8, <2>1, <2>2 DEF Ends
  <2> QED
    BY <1>2, <2>3 DEF TunnelInv, StageInv
<1> QED
  BY <1>7, <1>9, <1>10 DEF TunnelInv, FlowInv

(* The next byte is written to an end. *)
LEMMA PassOne ==
    ASSUME TunnelInv, NEW d \in Ends, NEW b \in 1 .. MaxBytes, b = Passed(d) + 1,
           outbox' = [outbox EXCEPT ![d] = Append(outbox[d], b)],
           UNCHANGED <<got, lost>>
    PROVE  /\ outbox' \in [Ends -> Bytes] /\ outbox'[Other(d)] = outbox[Other(d)]
           /\ Delivered(d)' /\ Passed(d)' = Passed(d) + 1
           /\ Delivered(Other(d))' /\ Passed(Other(d))' = Passed(Other(d))
<1>1. /\ outbox[d] \in Bytes /\ Skipped(d) \in Nat /\ Len(got[d]) \in Nat
      /\ Len(outbox[d]) \in Nat
  BY Lengths DEF TunnelInv
<1>2. /\ outbox'[d] = Append(outbox[d], b) /\ outbox'[Other(d)] = outbox[Other(d)]
      /\ Skipped(d)' = Skipped(d) /\ Skipped(Other(d))' = Skipped(Other(d))
      /\ Other(d) \in Ends
  BY TwoEnds DEF Skipped, TunnelInv, TunnelTypeOK
<1>3. Delivered(d) /\ Delivered(Other(d))
  BY <1>2 DEF TunnelInv, FlowInv
<1>4. b = Skipped(d) + Len(got[d]) + Len(outbox[d]) + 1
  BY <1>1 DEF Passed
<1>5. /\ Append(outbox[d], b) \in Bytes /\ Len(Append(outbox[d], b)) = Len(outbox[d]) + 1
      /\ Counts(Append(outbox[d], b), Skipped(d) + Len(got[d]))
  BY <1>1, <1>3, <1>4, AppendCounts DEF Delivered
<1>6. outbox' \in [Ends -> Bytes]
  BY <1>5 DEF TunnelInv, TunnelTypeOK
<1>7. Delivered(d)'
  <2>1. Delivered(d)' <=> /\ Counts(got[d], Skipped(d))
                          /\ Counts(outbox'[d], Skipped(d) + Len(got[d]))
    BY <1>2 DEF Delivered, Counts
  <2> QED
    BY <1>2, <1>3, <1>5, <2>1 DEF Delivered
<1>8. Passed(d)' = Passed(d) + 1
  <2>1. Passed(d)' = Skipped(d) + Len(got[d]) + Len(outbox'[d])
    BY <1>2 DEF Passed
  <2> QED
    BY <1>1, <1>2, <1>5, <2>1 DEF Passed
<1>9. Delivered(Other(d))' /\ Passed(Other(d))' = Passed(Other(d))
  BY <1>2, <1>3 DEF Delivered, Passed, Counts
<1> QED
  BY <1>2, <1>6, <1>7, <1>8, <1>9

LEMMA FlushInv ==
    ASSUME TunnelInv, Flush  PROVE TunnelInv'
<1>1. /\ stage = "flushing" /\ early # <<>> /\ early' = Tail(early)
      /\ outbox' = Written("backend", Head(early))
      /\ UNCHANGED <<stage, reply, end, sent, got, inbox, shut, copying, lost>>
  BY DEF Flush, peers
<1>2. early \in Bytes /\ Passed("backend") \in Nat
  BY TwoEnds, Lengths DEF TunnelInv
<1>3. /\ Head(early) \in 1 .. MaxBytes /\ Tail(early) \in Bytes
      /\ Len(Tail(early)) = Len(early) - 1
      /\ \A p \in Nat : Counts(early, p) => Head(early) = p + 1 /\ Counts(Tail(early), p + 1)
  BY <1>1, <1>2, HeadCounts
<1>4. ASSUME NEW d \in Ends, d = "client"  PROVE OnTheWay(d)' /\ Delivered(d)'
  <2>1. Other(d) = "backend" /\ Ahead("backend")' = Ahead("backend")
    BY <1>4, TwoEnds DEF Ahead
  <2>2. outbox'[d] = outbox[d]
    BY <1>1, <1>4 DEF Written, TunnelInv, TunnelTypeOK
  <2> QED
    BY <1>1, <2>1, <2>2 DEF TunnelInv, FlowInv, OnTheWay, Delivered, Passed, Skipped, Counts
<1>5. outbox' \in [Ends -> Bytes] /\ Delivered("backend")' /\ OnTheWay("backend")'
  <2>1. CASE end["backend"] = "gone"
    <3>1. outbox' = outbox
      BY <1>1, <2>1 DEF Written
    <3> QED
      BY <1>1, <2>1, <3>1, TwoEnds
         DEF TunnelInv, FlowInv, Delivered, OnTheWay, Skipped, Counts, TunnelTypeOK
  <2>2. CASE end["backend"] # "gone"
    <3>1. /\ Counts(early, Passed("backend"))
          /\ Counts(inbox["client"], Passed("backend") + Len(early))
          /\ end["client"] # "gone" =>
                 Passed("backend") + Len(early) + Len(inbox["client"]) = sent["client"]
      BY <1>1, <2>2, TwoEnds DEF TunnelInv, FlowInv, OnTheWay, Ahead
    <3>2. Head(early) = Passed("backend") + 1 /\ Counts(early', Passed("backend") + 1)
      BY <1>1, <1>2, <1>3, <3>1
    <3>3. outbox' = [outbox EXCEPT !["backend"] = Append(outbox["backend"], Head(early))]
      BY <1>1, <2>2 DEF Written
    <3>4. /\ outbox' \in [Ends -> Bytes] /\ Delivered("backend")'
          /\ Passed("backend")' = Passed("backend") + 1
      BY <1>1, <1>3, <3>2, <3>3, PassOne, TwoEnds
    <3>5. Len(early) \in Nat /\ Len(early') = Len(early) - 1 /\ Len(inbox["client"]) \in Nat
      BY <1>1, <1>2, <1>3, TwoEnds, Lengths DEF Bytes, TunnelInv
    <3>6. /\ Passed("backend")' + Len(early') = Passed("backend") + Len(early)
          /\ Passed("backend")' + Len(early') + Len(inbox["client"])
                = Passed("backend") + Len(early) + Len(inbox["client"])
      BY <1>2, <3>4, <3>5
    <3>7. OnTheWay("backend")'
      BY <1>1, <3>1, <3>2, <3>4, <3>6, TwoEnds DEF OnTheWay, Ahead, Counts
    <3> QED
      BY <3>4, <3>7
  <2> QED
    BY <2>1, <2>2
<1>6. TunnelTypeOK'
  BY <1>1, <1>3, <1>5 DEF TunnelInv, TunnelTypeOK
<1>7. \A d \in Ends : Drained(d)'
  BY <1>1 DEF Drained
<1>8. StageInv'
  <2>1. outbox'["client"] = outbox["client"]
    BY <1>1, TwoEnds DEF Written, TunnelInv, TunnelTypeOK
  <2> QED
    BY <1>1, <2>1 DEF TunnelInv, StageInv
<1> QED
  BY <1>4, <1>5, <1>6, <1>7, <1>8 DEF TunnelInv, FlowInv, Ends

LEMMA CopyInv ==
    ASSUME TunnelInv, NEW e \in Ends, Copy(e)  PROVE TunnelInv'
<1> DEFINE d == Other(e)
<1>1. /\ e \in copying /\ inbox[e] # <<>> /\ end[d] # "gone"
      /\ outbox' = [outbox EXCEPT ![d] = Append(outbox[d], Head(inbox[e]))]
      /\ inbox' = [inbox EXCEPT ![e] = Tail(inbox[e])]
      /\ UNCHANGED <<stage, reply, end, sent, got, early, shut, copying, lost>>
  BY DEF Copy, Written, peers
<1>2. stage = "open" /\ early = <<>>
  BY <1>1 DEF TunnelInv, StageInv
<1>3. d \in Ends /\ Other(d) = e /\ d # e
  BY TwoEnds
<1> HIDE DEF d
<1>4. /\ Ahead(e) = <<>> /\ Ahead(e)' = <<>> /\ Len(<<>>) = 0
      /\ Ahead(d)' = Ahead(d)
  BY <1>1, <1>2, EmptyCounts DEF Ahead
<1>5. inbox[e] \in Bytes /\ Len(inbox[e]) \in Nat /\ Passed(d) \in Nat
  BY <1>3, Lengths DEF TunnelInv
<1>6. /\ Head(inbox[e]) \in 1 .. MaxBytes /\ Tail(inbox[e]) \in Bytes
      /\ Len(Tail(inbox[e])) = Len(inbox[e]) - 1
      /\ Counts(inbox[e], Passed(d)) =>
             Head(inbox[e]) = Passed(d) + 1 /\ Counts(Tail(inbox[e]), Passed(d) + 1)
  BY <1>1, <1>5, HeadCounts
<1>7. /\ Counts(inbox[e], Passed(d))
      /\ end[e] # "gone" => Passed(d) + Len(inbox[e]) = sent[e]
  <2>1. OnTheWay(d)
    BY <1>3 DEF TunnelInv, FlowInv
  <2>2. /\ Counts(inbox[e], Passed(d) + 0)
        /\ end[e] # "gone" => Passed(d) + 0 + Len(inbox[e]) = sent[e]
    BY <1>1, <1>2, <1>3, <1>4, <2>1 DEF OnTheWay
  <2> QED
    BY <1>5, <2>2
<1>8. /\ outbox' \in [Ends -> Bytes] /\ Delivered(d)' /\ Delivered(e)'
      /\ Passed(d)' = Passed(d) + 1 /\ Passed(e)' = Passed(e)
      /\ outbox'[e] = outbox[e]
  BY <1>1, <1>3, <1>6, <1>7, PassOne
<1>9. /\ inbox'[e] = Tail(inbox[e]) /\ inbox'[d] = inbox[d]
      /\ inbox' \in [Ends -> Bytes]
  BY <1>1, <1>3, <1>6 DEF TunnelInv, TunnelTypeOK
<1>10. TunnelTypeOK'
  BY <1>1, <1>8, <1>9 DEF TunnelInv, TunnelTypeOK
<1>11. OnTheWay(d)'
  <2>1. /\ Counts(inbox'[e], Passed(d)' + 0)
        /\ end[e] # "gone" => Passed(d)' + 0 + Len(inbox'[e]) = sent[e]
    BY <1>5, <1>6, <1>7, <1>8, <1>9
  <2>2. OnTheWay(d)' <=>
           (end'[d] # "gone" /\ stage' # "closed" =>
              /\ Counts(Ahead(e)', Passed(d)')
              /\ Counts(inbox'[e], Passed(d)' + Len(Ahead(e)'))
              /\ end'[e] # "gone" =>
                    Passed(d)' + Len(Ahead(e)') + Len(inbox'[e]) = sent'[e])
    BY <1>3 DEF OnTheWay, Counts
  <2>3. Counts(Ahead(e)', Passed(d)')
    BY <1>4, EmptyCounts
  <2> QED
    BY <1>1, <1>4, <2>1, <2>2, <2>3
<1>12. OnTheWay(e)' /\ Drained(e)'
  BY <1>1, <1>3, <1>4, <1>8, <1>9
     DEF TunnelInv, FlowInv, OnTheWay, Drained, Counts, d
<1>13. Drained(d)'
  <2>1. Drained(d)
    BY <1>3 DEF TunnelInv, FlowInv
  <2>2. ~(shut[d] # "open" /\ end[e] # "gone")
    BY <1>1, <1>2, <1>3, <2>1 DEF Drained
  <2> QED
    BY <1>1, <1>3, <2>2 DEF Drained
<1>14. StageInv'
  <2>1. Len(inbox[e]) <= sent[e] /\ Len(inbox[d]) <= sent[d] /\ sent[e] \in Nat
    BY <1>3, Lengths DEF TunnelInv, StageInv
  <2>2. Len(inbox'[e]) <= sent[e]
    BY <1>5, <1>6, <1>9, <2>1
  <2>3. \A x \in Ends : Len(inbox'[x]) <= sent'[x]
    BY <1>1, <1>9, <2>1, <2>2, TwoEnds DEF d
  <2> QED
    BY <1>1, <1>2, <2>3 DEF TunnelInv, StageInv
<1>15. \A x \in Ends : x = d \/ x = e
  BY <1>3, TwoEnds
<1> QED
  BY <1>8, <1>10, <1>11, <1>12, <1>13, <1>14, <1>15 DEF TunnelInv, FlowInv

-----------------------------------------------------------------------------
(* Closing. *)

LEMMA CloseBothInv ==
    ASSUME TunnelInv, CloseBoth, early = <<>>, copying = {},
           \A d \in Ends : end[d] # "gone" /\ end[Other(d)] # "gone" =>
              /\ end[Other(d)] # "open" /\ inbox[Other(d)] = <<>>
              /\ Passed(d) = sent[Other(d)]
    PROVE  TunnelInv'
<1>1. PICK n \in [Ends -> 0 .. Window] :
         /\ \A e \in Ends : IF inbox[e] = <<>> THEN n[e] = Len(outbox[e])
                                                ELSE n[e] <= Len(outbox[e])
         /\ outbox' = [e \in Ends |-> Take(outbox[e], n[e])]
  BY DEF CloseBoth
<1>2. /\ stage' = "closed" /\ shut' = [e \in Ends |-> "closed"]
      /\ UNCHANGED <<reply, end, sent, got, inbox, early, copying, lost>>
  BY DEF CloseBoth, peers
<1>3. ASSUME NEW d \in Ends
      PROVE  /\ outbox[d] \in Bytes /\ n[d] \in 0 .. Len(outbox[d])
             /\ Skipped(d) \in Nat /\ Len(got[d]) \in Nat
  <2>1. outbox[d] \in Bytes /\ Len(outbox[d]) \in Nat /\ n[d] \in 0 .. Window
    BY Lengths DEF TunnelInv
  <2>2. n[d] \in Nat /\ n[d] <= Len(outbox[d])
    BY <1>1, <2>1, TunnelAssumption
  <2> QED
    BY <2>1, <2>2, Lengths DEF TunnelInv
<1>4. ASSUME NEW d \in Ends
      PROVE  /\ outbox'[d] \in Bytes /\ Len(outbox'[d]) = n[d]
             /\ Counts(outbox'[d], Skipped(d) + Len(got[d]))
  <2>1. Counts(outbox[d], Skipped(d) + Len(got[d])) /\ Skipped(d) + Len(got[d]) \in Nat
    BY <1>3 DEF TunnelInv, FlowInv, Delivered
  <2>2. outbox'[d] = Take(outbox[d], n[d])
    BY <1>1
  <2> QED
    BY <1>3, <2>1, <2>2, TakeCounts
<1>5. TunnelTypeOK'
  <2>1. outbox' \in [Ends -> Bytes]
    BY <1>1, <1>4
  <2>2. shut' \in [Ends -> {"open", "half", "closed"}] /\ shut'["backend"] = "closed"
    BY <1>2, TwoEnds
  <2> QED
    BY <1>2, <2>1, <2>2 DEF TunnelInv, TunnelTypeOK
<1>6. ASSUME NEW d \in Ends  PROVE Delivered(d)' /\ OnTheWay(d)' /\ Drained(d)'
  <2>1. Skipped(d)' = Skipped(d) /\ Counts(got[d], Skipped(d))
    BY <1>2 DEF Skipped, TunnelInv, FlowInv, Delivered
  <2>2. Delivered(d)'
    BY <1>2, <1>4, <2>1 DEF Delivered, Counts
  <2>3. ASSUME end[d] # "gone", end[Other(d)] # "gone"
        PROVE  end[Other(d)] # "open" /\ inbox[Other(d)] = <<>> /\ Passed(d)' = sent[Other(d)]
    <3>1. /\ end[Other(d)] # "open" /\ inbox[Other(d)] = <<>>
          /\ Passed(d) = sent[Other(d)] /\ inbox[d] = <<>>
      BY <2>3, TwoEnds
    <3>2. n[d] = Len(outbox[d])
      BY <1>1, <3>1
    <3>3. Len(outbox'[d]) = Len(outbox[d])
      BY <1>4, <3>2
    <3> QED
      BY <1>2, <2>1, <3>1, <3>3 DEF Passed
  <2>4. Drained(d)'
    BY <1>2, <2>3 DEF Drained
  <2> QED
    BY <1>2, <2>2, <2>4 DEF OnTheWay
<1>7. StageInv'
  BY <1>2 DEF TunnelInv, StageInv
<1> QED
  BY <1>5, <1>6, <1>7 DEF TunnelInv, FlowInv

LEMMA EndTunnelInv ==
    ASSUME TunnelInv, EndTunnel  PROVE TunnelInv'
<1>1. stage = "open" /\ copying = {} /\ CloseBoth
  BY DEF EndTunnel, BothDone
<1>2. early = <<>> /\ \A e \in Ends : shut[Other(e)] # "open"
  BY <1>1 DEF TunnelInv, StageInv
<1>3. \A d \in Ends : Drained(d) /\ shut[d] # "open"
  BY <1>2, TwoEnds DEF TunnelInv, FlowInv
<1> QED
  BY <1>1, <1>2, <1>3, CloseBothInv DEF Drained

LEMMA GreetInv ==
    ASSUME TunnelInv, Greet  PROVE TunnelInv'
<1>1. stage = "flushing" /\ early = <<>> /\ copying = {}
  BY DEF Greet, TunnelInv, StageInv
<1>2. CASE end["client"] = "gone"
  <2>1. CloseBoth
    BY <1>2 DEF Greet
  <2>2. \A d \in Ends : d = "client" \/ Other(d) = "client"
    BY TwoEnds
  <2> QED
    BY <1>1, <1>2, <2>1, <2>2, CloseBothInv
<1>3. CASE end["client"] # "gone"
  <2>1. /\ stage' = "open" /\ copying' = Ends
        /\ UNCHANGED <<reply, end, sent, got, inbox, early, outbox, shut, lost>>
    BY <1>3 DEF Greet, peers
  <2>2. TunnelTypeOK'
    BY <2>1 DEF TunnelInv, TunnelTypeOK
  <2>3. StageInv'
    BY <1>1, <2>1 DEF TunnelInv, StageInv
  <2>4. ASSUME NEW d \in Ends  PROVE Delivered(d)' /\ OnTheWay(d)'
    BY <1>1, <2>1, QuietStep
  <2>5. \A d \in Ends : shut'[d] = "open"
    BY <1>1, <2>1 DEF TunnelInv, StageInv
  <2>6. \A d \in Ends : Drained(d)'
    BY <2>5 DEF Drained
  <2> QED
    BY <2>2, <2>3, <2>4, <2>6 DEF TunnelInv, FlowInv
<1> QED
  BY <1>2, <1>3

-----------------------------------------------------------------------------

LEMMA TunnelInitInv == TunnelInit => TunnelInv
<1> SUFFICES ASSUME TunnelInit  PROVE TunnelInv
  OBVIOUS
<1>1. TunnelTypeOK
  BY EmptyCounts, TunnelAssumption DEF TunnelInit, TunnelTypeOK
<1>2. StageInv
  BY EmptyCounts DEF TunnelInit, StageInv, Ends
<1>3. ASSUME NEW d \in Ends  PROVE Delivered(d) /\ OnTheWay(d) /\ Drained(d)
  <2>1. /\ got[d] = <<>> /\ outbox[d] = <<>> /\ Skipped(d) = 0 /\ Ahead(Other(d)) = <<>>
        /\ inbox[Other(d)] = <<>> /\ sent[Other(d)] = 0 /\ Len(<<>>) = 0
    BY TwoEnds, EmptyCounts DEF TunnelInit, Skipped, Ahead
  <2>2. Passed(d) = 0
    BY <2>1 DEF Passed
  <2> QED
    BY <2>1, <2>2, EmptyCounts DEF Delivered, OnTheWay, Drained, TunnelInit
<1> QED
  BY <1>1, <1>2, <1>3 DEF TunnelInv, FlowInv

LEMMA TunnelNextInv ==
    ASSUME TunnelInv, TunnelNext  PROVE TunnelInv'
<1>1. ASSUME NEW e \in Ends, Copying(e) \/ Send(e) \/ CloseEnd(e) \/ Vanish(e) \/ Read(e)
      PROVE  TunnelInv'
  BY <1>1, CopyInv, EndCopyInv, SendInv, CloseEndInv, VanishInv, ReadInv DEF Copying
<1>2. CASE Proxying
  BY <1>2, BeforeInv, RefuseInv, ReadHeaderInv, HijackInv, FlushInv, GreetInv, EndTunnelInv
     DEF Proxying
<1>3. CASE Open \/ \E r \in {"101", "other"} : Reply(r)
  BY <1>3, BeforeInv
<1> QED
  BY <1>1, <1>2, <1>3 DEF TunnelNext

LEMMA TunnelStays == TunnelInv /\ UNCHANGED tunnel => TunnelInv'
<1> SUFFICES ASSUME TunnelInv, UNCHANGED tunnel  PROVE TunnelInv'
  OBVIOUS
<1>1. UNCHANGED <<stage, reply, end, sent, got, inbox, early, outbox, shut, copying, lost>>
  BY DEF tunnel, peers
<1>2. TunnelTypeOK'
  BY <1>1 DEF TunnelInv, TunnelTypeOK
<1>3. StageInv'
  BY <1>1 DEF TunnelInv, StageInv
<1>4. ASSUME NEW d \in Ends  PROVE Delivered(d)' /\ OnTheWay(d)' /\ Drained(d)'
  <2>1. Delivered(d)' /\ OnTheWay(d)' /\ Passed(d)' = Passed(d)
    BY <1>1, QuietStep
  <2> QED
    BY <1>1, <2>1 DEF TunnelInv, FlowInv, Drained
<1> QED
  BY <1>2, <1>3, <1>4 DEF TunnelInv, FlowInv

(* What the invariant says of a reader. *)
LEMMA InvIntact == TunnelInv => StreamsIntact
<1> SUFFICES ASSUME TunnelInv, NEW e \in Ends
             PROVE  LET s == got[e] \o outbox[e]
                        skipped == IF e = "client" THEN lost ELSE 0
                    IN  \A i \in DOMAIN s : s[i] = skipped + i
  BY DEF StreamsIntact
<1>1. /\ got[e] \in Bytes /\ outbox[e] \in Bytes /\ Skipped(e) \in Nat
      /\ Len(got[e]) \in Nat /\ Len(outbox[e]) \in Nat
  BY Lengths DEF TunnelInv
<1>2. Counts(got[e], Skipped(e)) /\ Counts(outbox[e], Skipped(e) + Len(got[e]))
  BY DEF TunnelInv, FlowInv, Delivered
<1> DEFINE s == got[e] \o outbox[e]
<1>3. /\ DOMAIN s = 1 .. Len(got[e]) + Len(outbox[e])
      /\ \A i \in 1 .. Len(got[e]) + Len(outbox[e]) :
            s[i] = IF i <= Len(got[e]) THEN got[e][i] ELSE outbox[e][i - Len(got[e])]
  <2>1. /\ got[e] \in Seq(1 .. MaxBytes) /\ outbox[e] \in Seq(1 .. MaxBytes)
    BY <1>1 DEF Bytes
  <2>2. /\ s \in Seq(1 .. MaxBytes) /\ Len(s) = Len(got[e]) + Len(outbox[e])
        /\ \A i \in 1 .. Len(got[e]) + Len(outbox[e]) :
              s[i] = IF i <= Len(got[e]) THEN got[e][i] ELSE outbox[e][i - Len(got[e])]
    BY <2>1, ConcatProperties
  <2> HIDE DEF s
  <2>3. DOMAIN s = 1 .. Len(s)
    BY <2>2, LenProperties
  <2> QED
    BY <2>2, <2>3
<1>4. ASSUME NEW i \in DOMAIN s  PROVE s[i] = Skipped(e) + i
  <2>1. i \in 1 .. Len(got[e]) + Len(outbox[e])
    BY <1>3
  <2>2. CASE i <= Len(got[e])
    <3>1. i \in 1 .. Len(got[e])
      BY <1>1, <2>1, <2>2
    <3> QED
      BY <1>2, <1>3, <2>1, <2>2, <3>1 DEF Counts
  <2>3. CASE ~(i <= Len(got[e]))
    <3> DEFINE m == Len(got[e])  k == Len(outbox[e])
    <3> HIDE DEF m, k
    <3>0. m \in Nat /\ k \in Nat /\ i \in 1 .. m + k /\ ~(i <= m) => i - m \in 1 .. k
      OBVIOUS
    <3>1. i - Len(got[e]) \in 1 .. Len(outbox[e])
      BY <1>1, <2>1, <2>3, <3>0 DEF m, k
    <3>2. outbox[e][i - Len(got[e])] = Skipped(e) + Len(got[e]) + (i - Len(got[e]))
      BY <1>2, <3>1 DEF Counts
    <3>3. Skipped(e) + Len(got[e]) + (i - Len(got[e])) = Skipped(e) + i
      BY <1>1, <2>1
    <3> QED
      BY <1>3, <2>1, <2>3, <3>2, <3>3
  <2> QED
    BY <2>2, <2>3
<1> QED
  BY <1>4 DEF Skipped

LEMMA InvMeansAll == TunnelInv => EndMeansAll
<1> SUFFICES ASSUME TunnelInv, NEW e \in Ends, SeesEnd(e), end[e] # "gone",
                    end[Other(e)] # "gone"
             PROVE  Len(got[e]) = sent[Other(e)] - (IF e = "client" THEN lost ELSE 0)
  BY DEF EndMeansAll
<1>1. Passed(e) = sent[Other(e)]
  BY DEF SeesEnd, TunnelInv, FlowInv, Drained
<1>2. Len(outbox[e]) = 0 /\ Skipped(e) \in Nat /\ Len(got[e]) \in Nat
  BY Lengths, EmptyCounts DEF SeesEnd, TunnelInv
<1>3. Skipped(e) = IF e = "client" THEN lost ELSE 0
  BY DEF Skipped
<1> QED
  BY <1>1, <1>2, <1>3 DEF Passed
=============================================================================
