-------------------------- MODULE EnrollmentProofs --------------------------
(***************************************************************************)
(* Theorems about Enrollment, for every set of edges, ids and tokens and   *)
(* any number of faults: type correctness, what the two files of the       *)
(* console promise each other, whose token an edge holds, and that a used  *)
(* install token is never usable again.                                    *)
(***************************************************************************)
EXTENDS Enrollment, FiniteSetTheorems, SequenceTheorems, TLAPS

Both == <<"clients", "regs">>

(* What a list of registrations promises by itself, and with the ids of a   *)
(* clients.json; and that nothing used in the file is unused in a new list. *)
OnePending(l) ==
    \A i, j \in DOMAIN l : /\ l[i].id = l[j].id
                           /\ l[i].status = "pending" /\ l[j].status = "pending"
                           => i = j

Own(l) == \A i \in DOMAIN l : l[i].id = IdOf[l[i].token[1]]

Backed(l, ids) ==
    \A i \in DOMAIN l : l[i].status = "approved" \/ l[i].used => l[i].id \in ids

KeepsUsed(l) ==
    \A i \in DOMAIN regsFile.list :
       regsFile.list[i].used => i \in DOMAIN l /\ l[i].used

(* A list that may become the file while clients.json holds ids. *)
ListOK(l) == l \in Seq(Registration) /\ OnePending(l) /\ Own(l)

Known(id) == clientsFile.torn \/ id \in clientsFile.ids

TokensOf(e) == {held[e], stored[e]} \ {NoId}

(* The invariants: of the files, of the handler at work, of the tokens.     *)
FileInv ==
    /\ ListOK(regsFile.list)
    /\ ~clientsFile.torn => Backed(regsFile.list, clientsFile.ids)

RequestOK(r) == r.kind # "admin" => IdOf[r.token[1]] = IdOf[r.edge]

(* What a handler is about to write: while clients.json is still to be      *)
(* written, its new ids cover both lists and every token handed out.        *)
JobOK(j) ==
    /\ ListOK(j.list)
    /\ j.writes = Both => /\ Backed(j.list, j.ids) /\ Backed(regsFile.list, j.ids)
                          /\ \A e \in Edges : TokensOf(e) \subseteq j.ids
    /\ j.writes # Both /\ ~clientsFile.torn => Backed(j.list, clientsFile.ids)
    /\ RequestOK(j.request)
    /\ j.answer = "token" => /\ j.request.kind \in {"poll", "script"}
                             /\ j.about = IdOf[j.request.edge] /\ Known(j.about)
                             /\ j.writes # Both

TokenInv ==
    /\ \A e \in Edges : token[e][1] = e
    /\ \A e \in Edges : \A id \in TokensOf(e) : id = IdOf[e] /\ Known(id)
    /\ \A r \in net : RequestOK(r)

EnrollInv == TypeOK /\ FileInv /\ (job.busy => JobOK(job)) /\ TokenInv

-----------------------------------------------------------------------------
(* Lists. *)

LEMMA ListKept ==
    ASSUME NEW l \in Seq(Registration), NEW i \in DOMAIN l,
           NEW v \in Registration
    PROVE  /\ [l EXCEPT ![i] = v] \in Seq(Registration)
           /\ DOMAIN [l EXCEPT ![i] = v] = DOMAIN l
           /\ [l EXCEPT ![i] = v][i] = v
           /\ \A j \in DOMAIN l \ {i} : [l EXCEPT ![i] = v][j] = l[j]
  OBVIOUS

(* One registration is replaced by one of the same id and token, which is   *)
(* not pending unless it was.                                               *)
LEMMA ListUpdated ==
    ASSUME NEW l, ListOK(l), NEW i \in DOMAIN l, NEW v \in Registration,
           v.id = l[i].id, v.token = l[i].token,
           v.status = "pending" => l[i].status = "pending"
    PROVE  ListOK([l EXCEPT ![i] = v])
<1> DEFINE m == [l EXCEPT ![i] = v]
<1>1. /\ m \in Seq(Registration) /\ DOMAIN m = DOMAIN l
      /\ m[i] = v /\ \A j \in DOMAIN l \ {i} : m[j] = l[j]
  BY ListKept DEF ListOK
<1> HIDE DEF m
<1>2. \A j \in DOMAIN l : /\ m[j].id = l[j].id /\ m[j].token = l[j].token
                          /\ m[j].status = "pending" => l[j].status = "pending"
  BY <1>1
<1>3. OnePending(m) /\ Own(m)
  BY <1>1, <1>2 DEF ListOK, OnePending, Own
<1>4. ListOK(m)
  BY <1>1, <1>3 DEF ListOK
<1> QED
  BY <1>4 DEF m

LEMMA BackedUpdated ==
    ASSUME NEW l \in Seq(Registration), NEW ids, NEW more, Backed(l, ids),
           ids \subseteq more,
           NEW i \in DOMAIN l, NEW v \in Registration, v.id = l[i].id,
           v.status = "approved" \/ v.used => v.id \in more
    PROVE  Backed([l EXCEPT ![i] = v], more)
  BY ListKept DEF Backed

LEMMA UsedUpdated ==
    ASSUME regsFile.list \in Seq(Registration),
           NEW i \in DOMAIN regsFile.list, NEW v \in Registration,
           regsFile.list[i].used => v.used
    PROVE  KeepsUsed([regsFile.list EXCEPT ![i] = v])
  BY ListKept DEF KeepsUsed

(* The list of registerEdge. *)
LEMMA ListRegistered ==
    ASSUME TypeOK, FileInv, NEW id \in Ids, NEW t \in InstallTokens,
           id = IdOf[t[1]]
    PROVE  LET l == RegisteredList(id, t) IN
           /\ ListOK(l) /\ KeepsUsed(l)
           /\ ~clientsFile.torn => Backed(l, clientsFile.ids)
<1> DEFINE f == regsFile.list
           l == RegisteredList(id, t)
<1>0. f \in Seq(Registration) /\ DOMAIN f = 1 .. Len(f) /\ Len(f) \in Nat
  BY DEF TypeOK
<1>1. CASE Pending(id) # {}
  <2>1. l = [i \in DOMAIN f |-> IF i \in First(Pending(id))
                                THEN [f[i] EXCEPT !.token = t] ELSE f[i]]
    BY <1>1 DEF RegisteredList
  <2>2. \A i \in DOMAIN f : f[i] \in Registration
    BY <1>0
  <2>3. \A i \in First(Pending(id)) : i \in DOMAIN f /\ f[i].id = id
    BY DEF First, Pending, ById
  <2> HIDE DEF l
  <2>4. ASSUME NEW i \in DOMAIN f
        PROVE  /\ l[i] \in Registration
               /\ l[i].id = f[i].id /\ l[i].status = f[i].status
               /\ l[i].used = f[i].used
               /\ \/ l[i].token = f[i].token
                  \/ l[i].token = t /\ f[i].id = id
    <3>1. CASE i \in First(Pending(id))
      <4>1. l[i] = [f[i] EXCEPT !.token = t]
        BY <2>1, <3>1
      <4> QED
        BY <2>2, <2>3, <3>1, <4>1 DEF Registration
    <3>2. CASE i \notin First(Pending(id))
      BY <2>1, <2>2, <3>2
    <3> QED
      BY <3>1, <3>2
  <2>5. DOMAIN l = DOMAIN f
    BY <2>1
  <2>6. l \in Seq(Registration)
    <3>1. l \in [1 .. Len(f) -> Registration]
      BY <1>0, <2>1, <2>4, <2>5
    <3> QED
      BY <1>0, <3>1, SeqDef
  <2>7. OnePending(l) /\ Own(l)
    BY <2>4, <2>5 DEF FileInv, ListOK, OnePending, Own
  <2>8. ~clientsFile.torn => Backed(l, clientsFile.ids)
    BY <2>4, <2>5 DEF FileInv, Backed
  <2>9. KeepsUsed(l)
    BY <2>4, <2>5 DEF KeepsUsed
  <2> QED
    BY <2>6, <2>7, <2>8, <2>9 DEF ListOK, l
<1>2. CASE Pending(id) = {}
  <2> DEFINE n == NewRegistration(id, t)
  <2>1. l = Append(f, n)
    BY <1>2 DEF RegisteredList
  <2>2. n \in Registration /\ n.id = id /\ n.token = t /\ n.status = "pending"
        /\ n.used = FALSE
    BY DEF NewRegistration, Registration
  <2> HIDE DEF n, l
  <2>3. /\ l \in Seq(Registration) /\ DOMAIN l = DOMAIN f \cup {Len(f) + 1}
        /\ l[Len(f) + 1] = n /\ \A i \in DOMAIN f : l[i] = f[i]
    BY <1>0, <2>1, <2>2
  <2>4. \A i \in DOMAIN f : f[i].id = id => f[i].status # "pending"
    BY <1>2 DEF Pending, ById
  <2>5. OnePending(l)
    BY <2>2, <2>3, <2>4 DEF FileInv, ListOK, OnePending
  <2>6. Own(l)
    BY <2>2, <2>3 DEF FileInv, ListOK, Own
  <2>7. ~clientsFile.torn => Backed(l, clientsFile.ids)
    BY <2>2, <2>3 DEF FileInv, Backed
  <2>8. KeepsUsed(l)
    BY <2>3 DEF KeepsUsed
  <2> QED
    BY <2>3, <2>5, <2>6, <2>7, <2>8 DEF ListOK, l
<1> QED
  BY <1>1, <1>2

-----------------------------------------------------------------------------
(* Handlers that begin. *)

(* What a handler that takes the mutex must have. *)
Begun == /\ job' \in Jobs /\ JobOK(job') /\ KeepsUsed(job'.list)

LEMMA BeginKeeps ==
    ASSUME EnrollInv, Begun, UNCHANGED <<files, edges, signer>>,
           net' \subseteq net, faults' = faults, rejects' \in 0 .. MaxRejects
    PROVE  EnrollInv'
<1>1. TypeOK'
  BY DEF EnrollInv, TypeOK, Begun, files, edges, signer
<1>2. FileInv'
  BY DEF EnrollInv, FileInv, ListOK, OnePending, Own, Backed, files
<1>3. JobOK(job)'
  BY DEF Begun, JobOK, ListOK, OnePending, Own, Backed, TokensOf, RequestOK,
         Known, files, edges
<1>4. TokenInv'
  BY DEF EnrollInv, TokenInv, TokensOf, Known, RequestOK, files, edges
<1> QED
  BY <1>1, <1>2, <1>3, <1>4 DEF EnrollInv

LEMMA AnswerBegun ==
    ASSUME EnrollInv, NEW r \in Request, RequestOK(r),
           NEW a \in Answers \ {"token"}, Answer(r, a)
    PROVE  Begun
<1>1. job' = [busy |-> TRUE, writes |-> <<>>, ids |-> clientsFile.ids,
              list |-> regsFile.list, request |-> r, answer |-> a, about |-> NoId]
  BY DEF Answer, Begin
<1>2. job' \in Jobs
  BY <1>1 DEF Jobs, EnrollInv, TypeOK
<1>3. /\ job'.list = regsFile.list /\ job'.request = r /\ job'.answer = a
      /\ job'.writes = <<>>
  BY <1>1
<1>4. JobOK(job')
  BY <1>3 DEF JobOK, EnrollInv, FileInv, Both
<1> QED
  BY <1>2, <1>3, <1>4 DEF Begun, KeepsUsed

(* A handler that rewrites the registrations only. *)
LEMMA RewriteBegun ==
    ASSUME EnrollInv, NEW l, ListOK(l), KeepsUsed(l),
           ~clientsFile.torn => Backed(l, clientsFile.ids),
           NEW r \in Request \cup {NoRequest}, RequestOK(r),
           NEW a \in Answers, NEW ab \in Ids \cup {NoId},
           a = "token" => /\ r.kind \in {"poll", "script"}
                          /\ ab = IdOf[r.edge] /\ Known(ab),
           Begin(<<"regs">>, clientsFile.ids, l, r, a, ab)
    PROVE  Begun
<1>1. job' = [busy |-> TRUE, writes |-> <<"regs">>, ids |-> clientsFile.ids,
              list |-> l, request |-> r, answer |-> a, about |-> ab]
  BY DEF Begin
<1>2. job' \in Jobs
  BY <1>1 DEF Jobs, EnrollInv, TypeOK, ListOK
<1>3. /\ job'.list = l /\ job'.request = r /\ job'.answer = a
      /\ job'.writes = <<"regs">> /\ job'.about = ab
  BY <1>1
<1>4. <<"regs">> # Both
  BY DEF Both
<1>5. JobOK(job')
  BY <1>3, <1>4 DEF JobOK
<1> QED
  BY <1>2, <1>3, <1>5 DEF Begun

LEMMA RegisterBegun ==
    ASSUME EnrollInv, NEW r \in net, RegisterEdge(r)
    PROVE  Begun
<1>1. r \in Request /\ RequestOK(r)
  BY DEF EnrollInv, TypeOK, TokenInv
<1>2. CASE Answer(r, "error") \/ Answer(r, "conflict")
  BY <1>1, <1>2, AnswerBegun DEF Answers
<1>3. CASE Begin(<<"regs">>, clientsFile.ids,
                 RegisteredList(IdOf[r.edge], r.token), r, "accepted", NoId)
  <2>1. r.edge \in Edges /\ r.token \in InstallTokens /\ r.kind # "admin"
    BY <1>1 DEF Request, Kinds
  <2>2. IdOf[r.edge] \in Ids /\ IdOf[r.edge] = IdOf[r.token[1]]
    BY <1>1, <2>1, EnrollmentAssumption DEF RequestOK
  <2> DEFINE l == RegisteredList(IdOf[r.edge], r.token)
  <2>3. /\ ListOK(l) /\ KeepsUsed(l)
        /\ ~clientsFile.torn => Backed(l, clientsFile.ids)
    BY <2>1, <2>2, ListRegistered DEF EnrollInv
  <2> HIDE DEF l
  <2>4. Begin(<<"regs">>, clientsFile.ids, l, r, "accepted", NoId)
    BY <1>3 DEF l
  <2> QED
    BY <1>1, <2>3, <2>4, RewriteBegun DEF Answers
<1> QED
  BY <1>2, <1>3 DEF RegisterEdge

(* The first of some registrations is one of the file. *)
LEMMA FirstInstallable ==
    ASSUME EnrollInv, NEW t, NEW i \in First(Installable(t))
    PROVE  /\ i \in DOMAIN regsFile.list /\ regsFile.list[i] \in Registration
           /\ regsFile.list[i].token = t /\ regsFile.list[i].status = "approved"
           /\ ~clientsFile.torn => regsFile.list[i].id \in clientsFile.ids
           /\ regsFile.list[i].id = IdOf[t[1]]
<1>1. i \in Installable(t)
  BY DEF First
<1>2. i \in DOMAIN regsFile.list /\ regsFile.list[i].token = t
      /\ regsFile.list[i].status = "approved"
  BY <1>1 DEF Installable
<1>3. regsFile.list[i] \in Registration
  BY <1>2 DEF EnrollInv, TypeOK
<1> QED
  BY <1>2, <1>3 DEF EnrollInv, FileInv, Backed, ListOK, Own

(* A handler that marks an installable registration. *)
LEMMA Marked ==
    ASSUME EnrollInv, NEW t, NEW i \in First(Installable(t)),
           NEW v \in Registration,
           v.id = regsFile.list[i].id, v.token = t, v.status = "approved",
           regsFile.list[i].used => v.used
    PROVE  LET l == [regsFile.list EXCEPT ![i] = v] IN
           /\ ListOK(l) /\ KeepsUsed(l)
           /\ ~clientsFile.torn => Backed(l, clientsFile.ids)
<1> DEFINE l == [regsFile.list EXCEPT ![i] = v]
<1>1. ListOK(regsFile.list) /\ regsFile.list \in Seq(Registration)
  BY DEF EnrollInv, FileInv, ListOK
<1>2. ListOK(l)
  BY <1>1, FirstInstallable, ListUpdated
<1>3. KeepsUsed(l)
  BY <1>1, FirstInstallable, UsedUpdated
<1>4. ASSUME ~clientsFile.torn  PROVE Backed(l, clientsFile.ids)
  <2>1. Backed(regsFile.list, clientsFile.ids)
    BY <1>4 DEF EnrollInv, FileInv
  <2>2. /\ i \in DOMAIN regsFile.list
        /\ regsFile.list[i].id \in clientsFile.ids
    BY <1>4, FirstInstallable
  <2> QED
    BY <1>1, <2>1, <2>2, BackedUpdated
<1> QED
  BY <1>2, <1>3, <1>4

LEMMA InstallBegun ==
    ASSUME EnrollInv, NEW r \in net, InstallEdge(r)
    PROVE  Begun
<1>1. r \in Request /\ RequestOK(r) /\ r.kind \in {"poll", "script"}
  BY DEF EnrollInv, TypeOK, TokenInv, InstallEdge
<1>2. CASE \/ Answer(r, "error") \/ Answer(r, "notfound") \/ Answer(r, "gone")
  BY <1>1, <1>2, AnswerBegun DEF Answers
<1>3. ASSUME NEW i \in First(Installable(r.token)), ~regsFile.list[i].used,
             regsFile.list[i].id \in clientsFile.ids,
             Begin(<<"regs">>, clientsFile.ids,
                   InstalledList(i, r.kind = "script"), r, "token",
                   regsFile.list[i].id)
      PROVE  Begun
  <2> DEFINE reg == regsFile.list[i]
             v == [reg EXCEPT !.install = "delivered", !.used = (r.kind = "script")]
             l == [regsFile.list EXCEPT ![i] = v]
  <2>1. /\ i \in DOMAIN regsFile.list /\ reg \in Registration
        /\ reg.token = r.token /\ reg.status = "approved"
        /\ reg.id = IdOf[r.token[1]]
    BY FirstInstallable
  <2>2. v \in Registration /\ v.id = reg.id /\ v.token = r.token
        /\ v.status = "approved"
    BY <2>1 DEF Registration
  <2>3. InstalledList(i, r.kind = "script") = l
    BY <2>1 DEF InstalledList
  <2> HIDE DEF v
  <2>4. /\ ListOK(l) /\ KeepsUsed(l)
        /\ ~clientsFile.torn => Backed(l, clientsFile.ids)
    BY <1>3, <2>2, Marked
  <2>5. reg.id \in Ids /\ reg.id = IdOf[r.edge] /\ Known(reg.id)
    BY <1>1, <1>3, <2>1 DEF RequestOK, Registration, Known
  <2> HIDE DEF l, reg
  <2>6. Begin(<<"regs">>, clientsFile.ids, l, r, "token", reg.id)
    BY <1>3, <2>3 DEF reg
  <2> QED
    BY <1>1, <2>4, <2>5, <2>6, RewriteBegun DEF Answers
<1> QED
  BY <1>2, <1>3 DEF InstallEdge

LEMMA VerifyBegun ==
    ASSUME EnrollInv, NEW r \in net, VerifyInstall(r)
    PROVE  Begun
<1>1. r \in Request /\ RequestOK(r)
  BY DEF EnrollInv, TypeOK, TokenInv
<1>2. CASE Answer(r, "error") \/ Answer(r, "notfound")
  BY <1>1, <1>2, AnswerBegun DEF Answers
<1>3. ASSUME NEW i \in First(Installable(r.token)),
             Begin(<<"regs">>, clientsFile.ids,
                   [regsFile.list EXCEPT ![i].used = TRUE,
                                         ![i].install = "verified"],
                   r, "ok", NoId)
      PROVE  Begun
  <2> DEFINE reg == regsFile.list[i]
             v == [reg EXCEPT !.used = TRUE, !.install = "verified"]
             l == [regsFile.list EXCEPT ![i] = v]
  <2>1. /\ i \in DOMAIN regsFile.list /\ reg \in Registration
        /\ reg.token = r.token /\ reg.status = "approved"
    BY FirstInstallable
  <2>2. v \in Registration /\ v.id = reg.id /\ v.token = r.token
        /\ v.status = "approved" /\ v.used
    BY <2>1 DEF Registration
  <2>3. [regsFile.list EXCEPT ![i].used = TRUE, ![i].install = "verified"] = l
    BY <2>1
  <2> HIDE DEF v
  <2>4. /\ ListOK(l) /\ KeepsUsed(l)
        /\ ~clientsFile.torn => Backed(l, clientsFile.ids)
    BY <2>2, Marked
  <2> HIDE DEF l
  <2>5. Begin(<<"regs">>, clientsFile.ids, l, r, "ok", NoId)
    BY <1>3, <2>3
  <2> QED
    BY <1>1, <2>4, <2>5, RewriteBegun DEF Answers
<1> QED
  BY <1>2, <1>3 DEF VerifyInstall

LEMMA RejectBegun ==
    ASSUME EnrollInv, NEW id \in Ids, Reject(id)
    PROVE  Begun
<1>1. PICK i \in First(ById(id)) :
         Begin(<<"regs">>, clientsFile.ids,
               [regsFile.list EXCEPT ![i].status = "rejected"],
               NoRequest, "ok", NoId)
  BY DEF Reject
<1> DEFINE reg == regsFile.list[i]
           v == [reg EXCEPT !.status = "rejected"]
           l == [regsFile.list EXCEPT ![i] = v]
<1>2. i \in DOMAIN regsFile.list
  BY DEF First, ById
<1>3. reg \in Registration /\ regsFile.list \in Seq(Registration)
      /\ ListOK(regsFile.list)
  BY <1>2 DEF EnrollInv, TypeOK, FileInv
<1>4. v \in Registration /\ v.id = reg.id /\ v.token = reg.token
      /\ v.status = "rejected" /\ v.used = reg.used
  BY <1>3 DEF Registration
<1>5. [regsFile.list EXCEPT ![i].status = "rejected"] = l
  BY <1>2
<1> HIDE DEF v
<1>6. ListOK(l)
  BY <1>2, <1>3, <1>4, ListUpdated
<1>7. KeepsUsed(l)
  BY <1>2, <1>3, <1>4, UsedUpdated
<1>8. ~clientsFile.torn => Backed(l, clientsFile.ids)
  <2>1. SUFFICES ASSUME ~clientsFile.torn  PROVE Backed(l, clientsFile.ids)
    OBVIOUS
  <2>2. Backed(regsFile.list, clientsFile.ids)
    BY <2>1 DEF EnrollInv, FileInv
  <2>3. v.status = "approved" \/ v.used => v.id \in clientsFile.ids
    BY <1>2, <1>4, <2>2 DEF Backed
  <2> QED
    BY <1>2, <1>3, <1>4, <2>2, <2>3, BackedUpdated
<1> HIDE DEF l
<1>9. Begin(<<"regs">>, clientsFile.ids, l, NoRequest, "ok", NoId)
  BY <1>1, <1>5
<1>10. RequestOK(NoRequest)
  BY DEF RequestOK, NoRequest
<1> QED
  BY <1>6, <1>7, <1>8, <1>9, <1>10, RewriteBegun DEF Answers

(* Approval: the registration approved was not used, because every used one *)
(* has its client already.                                                  *)
LEMMA ApproveBegun ==
    ASSUME EnrollInv, NEW id \in Ids, Approve(id)
    PROVE  Begun
<1> DEFINE f == regsFile.list
           ids == clientsFile.ids \cup {id}
<1>0. ~clientsFile.torn /\ id \notin clientsFile.ids
  BY DEF Approve, Approvable, Readable
<1>1. PICK i \in First(ById(id)) :
         Begin(Both, ids,
               [f EXCEPT ![i].status = "approved", ![i].used = FALSE,
                         ![i].install = "approved"],
               NoRequest, "ok", NoId)
  BY DEF Approve, ApproveWrites, Both
<1> DEFINE v == [f[i] EXCEPT !.status = "approved", !.used = FALSE,
                             !.install = "approved"]
           l == [f EXCEPT ![i] = v]
<1>2. i \in DOMAIN f /\ f[i].id = id
  BY DEF First, ById
<1>3. f[i] \in Registration /\ f \in Seq(Registration) /\ ListOK(f)
      /\ Backed(f, clientsFile.ids)
  BY <1>0, <1>2 DEF EnrollInv, TypeOK, FileInv
<1>4. v \in Registration /\ v.id = id /\ v.token = f[i].token
      /\ v.status = "approved"
  BY <1>2, <1>3 DEF Registration
<1>5. [f EXCEPT ![i].status = "approved", ![i].used = FALSE,
                ![i].install = "approved"] = l
  BY <1>2
<1> HIDE DEF v
<1>6. ListOK(l)
  BY <1>2, <1>3, <1>4, ListUpdated
<1>7. ~f[i].used
  BY <1>0, <1>2, <1>3 DEF Backed
<1>8. KeepsUsed(l)
  BY <1>2, <1>3, <1>4, <1>7, UsedUpdated
<1>9. Backed(l, ids)
  BY <1>2, <1>3, <1>4, BackedUpdated
<1>10. Backed(f, ids)
  BY <1>3 DEF Backed
<1>11. \A e \in Edges : TokensOf(e) \subseteq ids
  BY <1>0 DEF EnrollInv, TokenInv, Known
<1> HIDE DEF l
<1>12. job' = [busy |-> TRUE, writes |-> Both, ids |-> ids, list |-> l,
               request |-> NoRequest, answer |-> "ok", about |-> NoId]
  BY <1>1, <1>5 DEF Begin
<1>13. ids \in SUBSET Ids
  BY DEF EnrollInv, TypeOK
<1> HIDE DEF ids
<1>14. job' \in Jobs
  BY <1>6, <1>12, <1>13 DEF Jobs, Both, Answers, ListOK
<1>15. /\ job'.list = l /\ job'.ids = ids /\ job'.writes = Both
       /\ job'.request = NoRequest /\ job'.answer = "ok"
  BY <1>12
<1>16. RequestOK(NoRequest)
  BY DEF RequestOK, NoRequest
<1>17. JobOK(job')
  BY <1>6, <1>9, <1>10, <1>11, <1>15, <1>16 DEF JobOK
<1> QED
  BY <1>8, <1>14, <1>15, <1>17 DEF Begun

-----------------------------------------------------------------------------
(* Steps that leave the files alone. *)

SameRequest(q, r) ==
    q.kind = r.kind /\ (r.kind # "admin" => q.edge = r.edge /\ q.token = r.token)

(* The handler at work goes on, at most without its sender, or is gone; no  *)
(* edge comes to hold another token.                                        *)
LEMMA FilesKept ==
    ASSUME EnrollInv, TypeOK', UNCHANGED files,
           \/ job' = job
           \/ job' = Idle
           \/ job.busy /\ \E q \in Request \cup {NoRequest} :
                 /\ SameRequest(q, job.request)
                 /\ job' = [job EXCEPT !.request = q],
           \A e \in Edges : TokensOf(e)' \subseteq TokensOf(e),
           \A r \in net' : RequestOK(r),
           \A e \in Edges : token'[e][1] = e
    PROVE  EnrollInv'
<1>1. FileInv'
  BY DEF EnrollInv, FileInv, ListOK, OnePending, Own, Backed, files
<1>2. TokenInv'
  BY DEF EnrollInv, TokenInv, Known, RequestOK, files
<1>3. ASSUME job'.busy  PROVE JobOK(job)'
  <2>1. job' # Idle
    BY <1>3 DEF Idle
  <2>2. job.busy
    BY <1>3, <2>1
  <2>3. job \in Jobs /\ JobOK(job)
    BY <2>2 DEF EnrollInv, TypeOK, Idle
  <2>4. /\ job'.list = job.list /\ job'.ids = job.ids
        /\ job'.writes = job.writes /\ job'.answer = job.answer
        /\ job'.about = job.about /\ SameRequest(job'.request, job.request)
    BY <2>1, <2>3 DEF Jobs, SameRequest
  <2>5. /\ RequestOK(job'.request)
        /\ job.answer = "token" => /\ job'.request.kind \in {"poll", "script"}
                                   /\ job.about = IdOf[job'.request.edge]
                                   /\ Known(job.about) /\ job.writes # Both
    BY <2>3, <2>4 DEF JobOK, RequestOK, SameRequest
  <2>6. ListOK(job'.list) /\ (job'.writes # Both /\ ~clientsFile'.torn =>
                                Backed(job'.list, clientsFile'.ids))
    BY <2>3, <2>4 DEF JobOK, files
  <2>7. job'.writes = Both =>
           /\ Backed(job'.list, job'.ids) /\ Backed(regsFile'.list, job'.ids)
           /\ \A e \in Edges : TokensOf(e)' \subseteq job'.ids
    BY <2>3, <2>4 DEF JobOK, files
  <2>8. Known(job.about)' <=> Known(job.about)
    BY <2>4 DEF Known, files
  <2> QED
    BY <2>4, <2>5, <2>6, <2>7, <2>8
       DEF JobOK, ListOK, OnePending, Own, Backed, TokensOf, RequestOK, Known
<1> QED
  BY <1>1, <1>2, <1>3 DEF EnrollInv

LEMMA OrphanSame ==
    ASSUME NEW r \in Request \cup {NoRequest}, NEW e
    PROVE  /\ Orphan(r, e) \in Request \cup {NoRequest}
           /\ r \in Request => Orphan(r, e) \in Request
           /\ SameRequest(Orphan(r, e), r)
           /\ RequestOK(r) => RequestOK(Orphan(r, e))
<1>1. CASE Orphan(r, e) = r
  BY <1>1 DEF SameRequest
<1>2. CASE Orphan(r, e) # r
  <2>1. r \in Request /\ Orphan(r, e) = [r EXCEPT !.live = FALSE]
    BY <1>2 DEF Orphan, NoRequest
  <2> QED
    BY <2>1 DEF Request, SameRequest, RequestOK
<1> QED
  BY <1>1, <1>2

LEMMA OrphansOK ==
    ASSUME EnrollInv, NEW e
    PROVE  /\ {Orphan(q, e) : q \in net} \subseteq Request
           /\ \A r \in {Orphan(q, e) : q \in net} : RequestOK(r)
<1>1. \A q \in net : q \in Request /\ RequestOK(q)
  BY DEF EnrollInv, TypeOK, TokenInv
<1> QED
  BY <1>1, OrphanSame

LEMMA OrphanJobKeeps ==
    ASSUME EnrollInv, NEW e, OrphanJob(e)
    PROVE  /\ job' \in {Idle} \cup Jobs
           /\ \/ job' = job
              \/ job.busy /\ \E q \in Request \cup {NoRequest} :
                    /\ SameRequest(q, job.request)
                    /\ job' = [job EXCEPT !.request = q]
<1>1. CASE ~job.busy
  BY <1>1 DEF OrphanJob, EnrollInv, TypeOK
<1>2. CASE job.busy
  <2>1. job \in Jobs /\ job' = [job EXCEPT !.request = Orphan(job.request, e)]
    BY <1>2 DEF OrphanJob, EnrollInv, TypeOK, Idle
  <2>2. job.request \in Request \cup {NoRequest}
    BY <2>1 DEF Jobs
  <2>3. /\ Orphan(job.request, e) \in Request \cup {NoRequest}
        /\ SameRequest(Orphan(job.request, e), job.request)
    BY <2>2, OrphanSame
  <2>4. job' \in Jobs
    BY <2>1, <2>3 DEF Jobs
  <2> QED
    BY <1>2, <2>1, <2>3, <2>4
<1> QED
  BY <1>1, <1>2

(* What a process does by itself. *)
LEMMA SendOK ==
    ASSUME EnrollInv, NEW e \in Edges, NEW k \in Kinds, NEW t \in InstallTokens,
           IdOf[t[1]] = IdOf[e], Send(e, k, t)
    PROVE  net' \in SUBSET Request /\ \A r \in net' : RequestOK(r)
<1> DEFINE r == [kind |-> k, edge |-> e, token |-> t, live |-> TRUE]
<1>1. r \in Request /\ RequestOK(r)
  BY DEF Request, RequestOK
<1>2. net' = net \cup {r}
  BY DEF Send
<1> QED
  BY <1>1, <1>2 DEF EnrollInv, TypeOK, TokenInv

LEMMA EdgeStepKeeps ==
    ASSUME EnrollInv, NEW e \in Edges, EdgeStep(e)
    PROVE  EnrollInv'
<1>0. TypeOK /\ TokenInv
  BY DEF EnrollInv
<1>1. CASE StartEdge(e)
  <2>1. UNCHANGED console /\ UNCHANGED <<stored, signer, counts>>
    BY <1>1 DEF StartEdge
  <2>2. CASE stored[e] # NoId
    <3>1. /\ pc' = [pc EXCEPT ![e] = "validating"]
          /\ held' = [held EXCEPT ![e] = stored[e]]
          /\ UNCHANGED <<token, gen, net>>
      BY <1>1, <2>2 DEF StartEdge
    <3>2. TypeOK'
      BY <1>0, <2>1, <3>1 DEF TypeOK, console, files, signer, counts
    <3>3. \A f \in Edges : TokensOf(f)' \subseteq TokensOf(f)
      BY <1>0, <2>1, <3>1 DEF TypeOK, TokensOf
    <3> QED
      BY <1>0, <2>1, <3>1, <3>2, <3>3, FilesKept DEF console, files, TokenInv
  <2>3. CASE stored[e] = NoId
    <3> DEFINE n == IF e \in FixedToken THEN gen[e] ELSE gen[e] + 1
    <3>a. /\ gen' = [gen EXCEPT ![e] = n]
          /\ token' = [token EXCEPT ![e] = <<e, n>>]
          /\ Send(e, "register", <<e, n>>)
          /\ e \in FixedToken \/ gen[e] < MaxGen
      BY <1>1, <2>3 DEF StartEdge
    <3>b. gen[e] \in 0 .. MaxGen /\ MaxGen \in Nat
      BY <1>0, EnrollmentAssumption DEF TypeOK
    <3>c. n \in 0 .. MaxGen
      BY <3>a, <3>b
    <3> HIDE DEF n
    <3>1. PICK g \in 0 .. MaxGen :
             /\ gen' = [gen EXCEPT ![e] = g]
             /\ token' = [token EXCEPT ![e] = <<e, g>>]
             /\ Send(e, "register", <<e, g>>)
      BY <3>a, <3>c
    <3>2. UNCHANGED held /\ pc' = [pc EXCEPT ![e] = "registering"]
      BY <1>1, <2>3 DEF StartEdge
    <3>3. <<e, g>> \in InstallTokens /\ <<e, g>>[1] = e
      BY DEF InstallTokens
    <3>4. net' \in SUBSET Request /\ \A r \in net' : RequestOK(r)
      BY <3>1, <3>3, SendOK DEF Kinds
    <3>5. TypeOK'
      BY <1>0, <2>1, <3>1, <3>2, <3>3, <3>4
         DEF TypeOK, console, files, signer, counts, Waiting
    <3>6. \A f \in Edges : token'[f][1] = f
      BY <1>0, <3>1, <3>3 DEF TokenInv, TypeOK
    <3>7. \A f \in Edges : TokensOf(f)' \subseteq TokensOf(f)
      BY <2>1, <3>2 DEF TokensOf
    <3> QED
      BY <2>1, <3>4, <3>5, <3>6, <3>7, FilesKept DEF console, files
  <2> QED
    BY <2>2, <2>3
<1>2. ASSUME NEW k \in {"poll", "verify"}, NEW p \in {"fetching", "reporting"},
             Send(e, k, token[e]), pc' = [pc EXCEPT ![e] = p],
             UNCHANGED <<console, token, gen, held, stored, signer, counts>>
      PROVE  EnrollInv'
  <2>1. token[e] \in InstallTokens /\ token[e][1] = e
    BY <1>0 DEF TypeOK, TokenInv
  <2>2. net' \in SUBSET Request /\ \A r \in net' : RequestOK(r)
    BY <1>2, <2>1, SendOK DEF Kinds
  <2>3. TypeOK'
    BY <1>0, <1>2, <2>2 DEF TypeOK, console, files, signer, counts, Waiting
  <2>4. \A f \in Edges : TokensOf(f)' \subseteq TokensOf(f)
    BY <1>2 DEF TokensOf
  <2> QED
    BY <1>0, <1>2, <2>2, <2>3, <2>4, FilesKept DEF console, files, TokenInv
<1>3. CASE Poll(e)
  BY <1>2, <1>3 DEF Poll
<1>4. CASE Report(e)
  BY <1>2, <1>4 DEF Report
<1>5. CASE StoreToken(e)
  <2>1. /\ UNCHANGED <<console, net, token, gen, held, signer, counts>>
        /\ pc' = [pc EXCEPT ![e] = "enrolled"]
        /\ stored' = stored \/ stored' = [stored EXCEPT ![e] = held[e]]
    BY <1>5 DEF StoreToken
  <2>2. TypeOK'
    BY <1>0, <2>1 DEF TypeOK, console, files, signer, counts
  <2>3. \A f \in Edges : TokensOf(f)' \subseteq TokensOf(f)
    BY <1>0, <2>1 DEF TypeOK, TokensOf
  <2> QED
    BY <1>0, <2>1, <2>2, <2>3, FilesKept DEF console, files, TokenInv
<1>6. CASE Validate(e)
  <2>1. /\ UNCHANGED <<console, net, token, gen, stored, signer, counts>>
        /\ pc' = [pc EXCEPT ![e] = "serving"] \/ pc' = [pc EXCEPT ![e] = "down"]
        /\ held' = held \/ held' = [held EXCEPT ![e] = NoId]
    BY <1>6 DEF Validate, Exit
  <2>2. TypeOK'
    BY <1>0, <2>1 DEF TypeOK, console, files, signer, counts
  <2>3. \A f \in Edges : TokensOf(f)' \subseteq TokensOf(f)
    BY <1>0, <2>1 DEF TypeOK, TokensOf
  <2> QED
    BY <1>0, <2>1, <2>2, <2>3, FilesKept DEF console, files, TokenInv
<1> QED
  BY <1>1, <1>3, <1>4, <1>5, <1>6 DEF EdgeStep

(* Faults of an edge, and a request that never arrives. *)
LEMMA EdgeFaultKeeps ==
    ASSUME EnrollInv, NEW e \in Edges,
           CrashEdge(e) \/ Timeout(e) \/ RunScript(e) \/ Reinstall(e)
    PROVE  EnrollInv'
<1>0. TypeOK /\ TokenInv
  BY DEF EnrollInv
<1>f. faults' \in 0 .. MaxFaults /\ rejects' = rejects
  BY <1>0, EnrollmentAssumption
     DEF CrashEdge, Timeout, RunScript, Reinstall, Fault, TypeOK
<1>1. CASE CrashEdge(e) \/ Timeout(e)
  <2>1. /\ UNCHANGED <<files, token, gen, stored, signer>>
        /\ net' = {Orphan(r, e) : r \in net} /\ OrphanJob(e)
        /\ pc' = [pc EXCEPT ![e] = "down"] \/ pc' = [pc EXCEPT ![e] = "validating"]
        /\ held' = held \/ held' = [held EXCEPT ![e] = NoId]
    BY <1>1 DEF CrashEdge, Timeout, Exit
  <2>2. /\ net' \subseteq Request /\ \A r \in net' : RequestOK(r)
    BY <2>1, OrphansOK
  <2>3. /\ job' \in {Idle} \cup Jobs
        /\ \/ job' = job
           \/ job.busy /\ \E q \in Request \cup {NoRequest} :
                 /\ SameRequest(q, job.request)
                 /\ job' = [job EXCEPT !.request = q]
    BY <2>1, OrphanJobKeeps
  <2>4. TypeOK'
    BY <1>0, <1>f, <2>1, <2>2, <2>3 DEF TypeOK, files, signer
  <2>5. \A f \in Edges : TokensOf(f)' \subseteq TokensOf(f)
    BY <1>0, <2>1 DEF TypeOK, TokensOf
  <2> QED
    BY <1>0, <2>1, <2>2, <2>3, <2>4, <2>5, FilesKept DEF TokenInv
<1>2. CASE RunScript(e)
  <2>1. PICK i \in ById(IdOf[e]) : Send(e, "script", regsFile.list[i].token)
    BY <1>2 DEF RunScript
  <2>2. UNCHANGED <<console, edges, signer>>
    BY <1>2 DEF RunScript
  <2>3. /\ i \in DOMAIN regsFile.list /\ regsFile.list[i].id = IdOf[e]
        /\ regsFile.list[i] \in Registration
    BY <1>0 DEF ById, TypeOK
  <2>4. /\ regsFile.list[i].token \in InstallTokens
        /\ IdOf[regsFile.list[i].token[1]] = IdOf[e]
    BY <2>3 DEF EnrollInv, FileInv, ListOK, Own, Registration
  <2>5. net' \in SUBSET Request /\ \A r \in net' : RequestOK(r)
    BY <2>1, <2>4, SendOK DEF Kinds
  <2>6. TypeOK'
    BY <1>0, <1>f, <2>2, <2>5 DEF TypeOK, console, files, edges, signer
  <2>7. \A f \in Edges : TokensOf(f)' \subseteq TokensOf(f)
    BY <2>2 DEF edges, TokensOf
  <2> QED
    BY <1>0, <2>2, <2>5, <2>6, <2>7, FilesKept DEF console, files, edges, TokenInv
<1>3. CASE Reinstall(e)
  <2>1. /\ UNCHANGED <<console, net, pc, token, held, stored, signer>>
        /\ gen' = [gen EXCEPT ![e] = @ + 1] /\ gen[e] < MaxGen
    BY <1>3 DEF Reinstall
  <2>2. gen[e] + 1 \in 0 .. MaxGen
    BY <1>0, <2>1, EnrollmentAssumption DEF TypeOK
  <2>3. TypeOK'
    BY <1>0, <1>f, <2>1, <2>2 DEF TypeOK, console, files, signer
  <2>4. \A f \in Edges : TokensOf(f)' \subseteq TokensOf(f)
    BY <2>1 DEF TokensOf
  <2> QED
    BY <1>0, <2>1, <2>3, <2>4, FilesKept DEF console, files, TokenInv
<1> QED
  BY <1>1, <1>2, <1>3

(* The console dies in a handler: what is on disk stays. *)
LEMMA CrashConsoleKeeps ==
    ASSUME EnrollInv, CrashConsole
    PROVE  EnrollInv'
<1>0. TypeOK /\ TokenInv
  BY DEF EnrollInv
<1>1. /\ job' = Idle /\ UNCHANGED <<files, net, signer>>
      /\ faults' \in 0 .. MaxFaults /\ rejects' = rejects
  BY <1>0, EnrollmentAssumption DEF CrashConsole, Fault, TypeOK
<1>2. job \in Jobs
  BY <1>0 DEF CrashConsole, TypeOK, Idle
<1>3. \/ UNCHANGED edges
      \/ /\ job.request.kind # "admin" /\ UNCHANGED <<token, gen, stored>>
         /\ \/ pc' = [pc EXCEPT ![job.request.edge] = "validating"]
            \/ pc' = [pc EXCEPT ![job.request.edge] = "down"]
         /\ \/ held' = held
            \/ held' = [held EXCEPT ![job.request.edge] = NoId]
  BY DEF CrashConsole, Exit
<1>4. job.request.kind # "admin" => job.request.edge \in Edges
  BY <1>2 DEF Jobs, Request, NoRequest
<1>5. TypeOK'
  <2>1. /\ pc' \in [Edges -> Waiting \cup {"down", "polling", "fetched",
                               "enrolled", "validating", "serving"}]
        /\ held' \in [Edges -> Ids \cup {NoId}]
        /\ UNCHANGED <<token, gen, stored>>
    BY <1>0, <1>3, <1>4 DEF TypeOK, edges
  <2> QED
    BY <1>0, <1>1, <2>1 DEF TypeOK, files, signer
<1>6. \A f \in Edges : TokensOf(f)' \subseteq TokensOf(f)
  BY <1>0, <1>3, <1>4 DEF TypeOK, TokensOf, edges
<1>7. token' = token
  BY <1>3 DEF edges
<1> QED
  BY <1>0, <1>1, <1>5, <1>6, <1>7, FilesKept DEF TokenInv

-----------------------------------------------------------------------------
(* Writing and answering. *)

LEMMA WriteKeeps ==
    ASSUME EnrollInv, WriteFile
    PROVE  EnrollInv'
<1>0. TypeOK /\ FileInv /\ TokenInv /\ job.busy /\ JobOK(job)
  BY DEF EnrollInv, WriteFile
<1>1. job \in Jobs /\ job.writes # <<>> /\ UNCHANGED <<net, edges, signer, counts>>
  BY <1>0 DEF WriteFile, TypeOK, Idle
<1>2. job.writes = <<"regs">> \/ job.writes = Both
  BY <1>1 DEF Jobs, Both
<1>h. Head(<<"regs">>) = "regs" /\ Head(Both) = "clients"
      /\ Tail(<<"regs">>) = <<>> /\ Tail(Both) = <<"regs">>
      /\ <<"regs">> # Both /\ <<>> # Both
  BY DEF Both
<1>3. CASE job.writes = Both
  <2>1. WriteClients /\ UNCHANGED regsFile
    BY <1>3, <1>h DEF WriteFile
  <2>2. /\ Backed(job.list, job.ids) /\ Backed(regsFile.list, job.ids)
        /\ \A e \in Edges : TokensOf(e) \subseteq job.ids
    BY <1>0, <1>3 DEF JobOK
  <2>3. CASE ~clientsFile.torn
    <3>1. clientsFile' = [torn |-> TRUE, ids |-> {}] /\ UNCHANGED job
      BY <2>1, <2>3 DEF WriteClients
    <3>2. TypeOK'
      BY <1>0, <1>1, <2>1, <3>1 DEF TypeOK, edges, signer, counts
    <3>3. clientsFile'.torn
      BY <3>1
    <3>4. FileInv'
      BY <1>0, <2>1, <3>3 DEF FileInv, ListOK, OnePending, Own
    <3>5. JobOK(job)'
      BY <1>0, <1>1, <2>1, <3>1, <3>3
         DEF JobOK, ListOK, OnePending, Own, Backed, TokensOf, RequestOK, Known, edges
    <3>6. TokenInv'
      BY <1>0, <1>1, <3>3 DEF TokenInv, TokensOf, Known, RequestOK, edges
    <3> QED
      BY <3>2, <3>4, <3>5, <3>6 DEF EnrollInv
  <2>4. CASE clientsFile.torn
    <3>1. /\ clientsFile' = [torn |-> FALSE, ids |-> job.ids]
          /\ job' = [job EXCEPT !.writes = <<"regs">>]
      BY <1>3, <1>h, <2>1, <2>4 DEF WriteClients
    <3>2. job' \in Jobs /\ clientsFile' \in [torn : BOOLEAN, ids : SUBSET Ids]
      BY <1>1, <3>1 DEF Jobs
    <3>3. TypeOK'
      BY <1>0, <1>1, <2>1, <3>2 DEF TypeOK, edges, signer, counts
    <3>4. clientsFile'.ids = job.ids
      BY <3>1
    <3>5. FileInv'
      BY <1>0, <2>1, <2>2, <3>4 DEF FileInv, ListOK, OnePending, Own, Backed
    <3>6. /\ job'.list = job.list /\ job'.writes = <<"regs">>
          /\ job'.request = job.request /\ job'.answer = job.answer
      BY <1>1, <3>1 DEF Jobs
    <3>7. job.answer # "token"
      BY <1>0, <1>3 DEF JobOK
    <3>8. JobOK(job)'
      BY <1>0, <1>h, <2>2, <3>4, <3>6, <3>7
         DEF JobOK, ListOK, OnePending, Own, Backed, RequestOK
    <3>9. TokenInv'
      BY <1>0, <1>1, <2>2, <3>4 DEF TokenInv, TokensOf, Known, RequestOK, edges
    <3> QED
      BY <3>3, <3>5, <3>8, <3>9 DEF EnrollInv
  <2> QED
    BY <2>3, <2>4
<1>4. CASE job.writes = <<"regs">>
  <2>1. WriteRegs /\ UNCHANGED clientsFile
    BY <1>4, <1>h DEF WriteFile
  <2>2. ListOK(job.list) /\ (~clientsFile.torn => Backed(job.list, clientsFile.ids))
    BY <1>0, <1>4, <1>h DEF JobOK
  <2>3. TokenInv'
    BY <1>0, <1>1, <2>1 DEF TokenInv, TokensOf, Known, RequestOK, edges
  <2>4. CASE ~regsFile.torn
    <3>1. regsFile' = [torn |-> TRUE, list |-> <<>>] /\ UNCHANGED job
      BY <2>1, <2>4 DEF WriteRegs
    <3>2. regsFile'.list = <<>> /\ regsFile'.torn \in BOOLEAN
          /\ regsFile'.list \in Seq(Registration) /\ DOMAIN regsFile'.list = {}
      BY <3>1
    <3>3. TypeOK'
      BY <1>0, <1>1, <2>1, <3>1, <3>2 DEF TypeOK, edges, signer, counts
    <3>4. FileInv'
      BY <3>2 DEF FileInv, ListOK, OnePending, Own, Backed
    <3>5. JobOK(job)'
      BY <1>0, <1>1, <1>4, <1>h, <2>1, <3>1
         DEF JobOK, ListOK, OnePending, Own, Backed, RequestOK, Known
    <3> QED
      BY <2>3, <3>3, <3>4, <3>5 DEF EnrollInv
  <2>5. CASE regsFile.torn
    <3>1. /\ regsFile' = [torn |-> FALSE, list |-> job.list]
          /\ job' = [job EXCEPT !.writes = <<>>]
      BY <1>4, <1>h, <2>1, <2>5 DEF WriteRegs
    <3>2. job' \in Jobs /\ regsFile'.torn \in BOOLEAN /\ regsFile'.list = job.list
      BY <1>1, <3>1 DEF Jobs
    <3>3. TypeOK'
      BY <1>0, <1>1, <2>1, <2>2, <3>2 DEF TypeOK, ListOK, edges, signer, counts
    <3>4. FileInv'
      BY <2>1, <2>2, <3>2 DEF FileInv, ListOK, OnePending, Own, Backed
    <3>5. /\ job'.list = job.list /\ job'.writes = <<>>
          /\ job'.request = job.request /\ job'.answer = job.answer
          /\ job'.about = job.about
      BY <1>1, <3>1 DEF Jobs
    <3>6. JobOK(job)'
      BY <1>0, <1>h, <2>1, <2>2, <3>5
         DEF JobOK, ListOK, OnePending, Own, Backed, RequestOK, Known
    <3> QED
      BY <2>3, <3>3, <3>4, <3>6 DEF EnrollInv
  <2> QED
    BY <2>4, <2>5
<1> QED
  BY <1>2, <1>3, <1>4

(* An answer is only ever delivered to the edge it belongs to. *)
LEMMA FinishKeeps ==
    ASSUME EnrollInv, Finish
    PROVE  EnrollInv'
<1>0. TypeOK /\ TokenInv /\ FileInv /\ job.busy /\ JobOK(job)
  BY DEF EnrollInv, Finish
<1>1. job \in Jobs /\ job' = Idle /\ UNCHANGED <<files, signer, counts>>
  BY <1>0 DEF Finish, TypeOK, Idle
<1> DEFINE r == job.request
<1>2. /\ r.kind # "admin" => r \in Request
      /\ job.answer \in Answers /\ job.about \in Ids \cup {NoId}
  BY <1>1 DEF Jobs, NoRequest
<1>3. CASE r.kind = "admin" \/ (r.kind # "script" /\ ~r.live)
  <2>1. UNCHANGED <<edges, net>>
    BY <1>3 DEF Finish
  <2>2. TypeOK'
    BY <1>0, <1>1, <2>1 DEF TypeOK, files, signer, counts, edges
  <2>3. \A f \in Edges : TokensOf(f)' \subseteq TokensOf(f)
    BY <2>1 DEF TokensOf, edges
  <2> QED
    BY <1>0, <1>1, <2>1, <2>2, <2>3, FilesKept DEF TokenInv, edges
<1>4. CASE r.kind = "script"
  <2>1. r \in Request /\ r.edge \in Edges
    BY <1>2, <1>4 DEF Request
  <2>2. CASE job.answer = "token"
    <3>1. /\ pc' = [pc EXCEPT ![r.edge] = "down"]
          /\ held' = [held EXCEPT ![r.edge] = NoId]
          /\ stored' = [stored EXCEPT ![r.edge] = job.about]
          /\ net' = {Orphan(q, r.edge) : q \in net}
          /\ UNCHANGED <<token, gen>>
      BY <1>4, <2>2 DEF Finish, Exit
    <3>2. job.about = IdOf[r.edge] /\ Known(job.about)
      BY <1>0, <2>2 DEF JobOK
    <3>3. net' \subseteq Request /\ \A q \in net' : RequestOK(q)
      BY <3>1, OrphansOK
    <3>4. TypeOK'
      BY <1>0, <1>1, <1>2, <2>1, <3>1, <3>3 DEF TypeOK, files, signer, counts
    <3>5. FileInv'
      BY <1>0, <1>1 DEF FileInv, ListOK, OnePending, Own, Backed, files
    <3>6. \A f \in Edges : \A id \in TokensOf(f)' : id = IdOf[f] /\ Known(id)
      BY <1>0, <2>1, <3>1, <3>2 DEF TokenInv, TokensOf, TypeOK
    <3>7. TokenInv'
      BY <1>0, <1>1, <3>1, <3>3, <3>6 DEF TokenInv, Known, RequestOK, files
    <3> QED
      BY <1>1, <3>4, <3>5, <3>7 DEF EnrollInv, Idle
  <2>3. CASE job.answer # "token"
    <3>1. UNCHANGED <<edges, net>>
      BY <1>4, <2>3 DEF Finish
    <3>2. TypeOK'
      BY <1>0, <1>1, <3>1 DEF TypeOK, files, signer, counts, edges
    <3>3. \A f \in Edges : TokensOf(f)' \subseteq TokensOf(f)
      BY <3>1 DEF TokensOf, edges
    <3> QED
      BY <1>0, <1>1, <3>1, <3>2, <3>3, FilesKept DEF TokenInv, edges
  <2> QED
    BY <2>2, <2>3
<1>5. CASE r.kind \notin {"admin", "script"} /\ r.live
  <2>1. r \in Request /\ r.edge \in Edges /\ r.kind \in Kinds
    BY <1>2, <1>5 DEF Request
  <2>2. /\ pc' = [pc EXCEPT ![r.edge] = Proceed(r.edge, r.kind, job.answer)]
        /\ held' = IF job.answer = "token"
                   THEN [held EXCEPT ![r.edge] = job.about] ELSE held
        /\ UNCHANGED <<token, gen, stored, net>>
    BY <1>5 DEF Finish
  <2>3. job.answer = "token" => job.about = IdOf[r.edge] /\ Known(job.about)
    BY <1>0 DEF JobOK
  <2>4. Proceed(r.edge, r.kind, job.answer) \in
           {"polling", "down", "fetched", "validating"}
    BY <1>5, <2>1 DEF Proceed, Kinds
  <2>5. TypeOK'
    BY <1>0, <1>1, <1>2, <2>1, <2>2, <2>4 DEF TypeOK, files, signer, counts
  <2>6. FileInv'
    BY <1>0, <1>1 DEF FileInv, ListOK, OnePending, Own, Backed, files
  <2>7. \A f \in Edges : \A id \in TokensOf(f)' : id = IdOf[f] /\ Known(id)
    BY <1>0, <2>1, <2>2, <2>3 DEF TokenInv, TokensOf, TypeOK
  <2>8. TokenInv'
    BY <1>0, <1>1, <2>2, <2>7 DEF TokenInv, Known, RequestOK, files
  <2> QED
    BY <1>1, <2>5, <2>6, <2>8 DEF EnrollInv, Idle
<1> QED
  BY <1>3, <1>4, <1>5

-----------------------------------------------------------------------------
(* The theorems. *)

LEMMA InitEnrollInv == Init => EnrollInv
<1> SUFFICES ASSUME Init  PROVE EnrollInv
  OBVIOUS
<1>1. <<>> \in Seq(Registration) /\ DOMAIN <<>> = {}
  OBVIOUS
<1>2. clientsFile \in [torn : BOOLEAN, ids : SUBSET Ids]
      /\ regsFile.torn \in BOOLEAN /\ regsFile.list = <<>>
  BY DEF Init
<1>3. /\ token \in [Edges -> InstallTokens] /\ gen \in [Edges -> 0 .. MaxGen]
      /\ faults \in 0 .. MaxFaults /\ rejects \in 0 .. MaxRejects
  BY EnrollmentAssumption DEF Init, InstallTokens
<1>4. TypeOK
  BY <1>1, <1>2, <1>3 DEF Init, TypeOK, Waiting
<1>5. FileInv
  BY <1>1, <1>2 DEF FileInv, ListOK, OnePending, Own, Backed
<1>6. TokenInv
  BY DEF Init, TokenInv, TokensOf
<1> QED
  BY <1>4, <1>5, <1>6 DEF EnrollInv, Init, Idle

LEMMA HandleBegun ==
    ASSUME EnrollInv, NEW r \in net, Handle(r)
    PROVE  EnrollInv' /\ KeepsUsed(job'.list)
<1>1. Begun
  BY RegisterBegun, InstallBegun, VerifyBegun DEF Handle
<1>2. /\ UNCHANGED <<files, edges, signer>> /\ net' \subseteq net
      /\ UNCHANGED counts
  BY DEF Handle, RegisterEdge, InstallEdge, VerifyInstall, Take
<1>3. faults' = faults /\ rejects' \in 0 .. MaxRejects
  BY <1>2 DEF EnrollInv, TypeOK, counts
<1>4. EnrollInv'
  BY <1>1, <1>2, <1>3, BeginKeeps
<1> QED
  BY <1>1, <1>4 DEF Begun

LEMMA AdminBegun ==
    ASSUME EnrollInv, NEW id \in Ids, Approve(id) \/ Reject(id)
    PROVE  EnrollInv' /\ KeepsUsed(job'.list)
<1>1. Begun
  BY ApproveBegun, RejectBegun
<1>2. /\ UNCHANGED <<files, edges, signer>> /\ net' = net /\ faults' = faults
      /\ \/ rejects' = rejects
         \/ rejects < MaxRejects /\ rejects' = rejects + 1
  BY DEF Approve, Reject, counts
<1>3. rejects' \in 0 .. MaxRejects
  BY <1>2, EnrollmentAssumption DEF EnrollInv, TypeOK
<1>4. EnrollInv'
  BY <1>1, <1>2, <1>3, BeginKeeps
<1> QED
  BY <1>1, <1>4 DEF Begun

LEMMA OtherKeeps ==
    ASSUME EnrollInv,
           RestartSigner \/ (\E r \in net : Lose(r)) \/ UNCHANGED vars
    PROVE  EnrollInv'
<1>0. TypeOK /\ TokenInv
  BY DEF EnrollInv
<1>1. UNCHANGED <<console, edges, counts>> /\ net' \subseteq net
  BY DEF RestartSigner, Lose, vars
<1>2. signerUp' \in BOOLEAN /\ loaded' \in SUBSET Ids
  <2>1. CASE RestartSigner
    BY <1>0, <2>1 DEF RestartSigner, TypeOK
  <2>2. CASE UNCHANGED signer
    BY <1>0, <2>2 DEF TypeOK, signer
  <2> QED
    BY <2>1, <2>2 DEF Lose, vars
<1>3. TypeOK'
  BY <1>0, <1>1, <1>2 DEF TypeOK, console, files, edges, counts
<1>4. \A f \in Edges : TokensOf(f)' \subseteq TokensOf(f)
  BY <1>1 DEF TokensOf, edges
<1>5. \A r \in net' : RequestOK(r)
  BY <1>0, <1>1 DEF TokenInv
<1>6. \A e \in Edges : token'[e][1] = e
  BY <1>0, <1>1 DEF TokenInv, edges
<1> QED
  BY <1>1, <1>3, <1>4, <1>5, <1>6, FilesKept DEF console, files

LEMMA NextEnrollInv == EnrollInv /\ [Next]_vars => EnrollInv'
<1> SUFFICES ASSUME EnrollInv, [Next]_vars  PROVE EnrollInv'
  OBVIOUS
<1>1. ASSUME NEW r \in net, Handle(r)  PROVE EnrollInv'
  BY <1>1, HandleBegun
<1>2. ASSUME NEW id \in Ids, Approve(id) \/ Reject(id)  PROVE EnrollInv'
  BY <1>2, AdminBegun
<1>3. CASE WriteFile
  BY <1>3, WriteKeeps
<1>4. CASE Finish
  BY <1>4, FinishKeeps
<1>5. ASSUME NEW e \in Edges, EdgeStep(e)  PROVE EnrollInv'
  BY <1>5, EdgeStepKeeps
<1>6. ASSUME NEW e \in Edges,
             CrashEdge(e) \/ Timeout(e) \/ RunScript(e) \/ Reinstall(e)
      PROVE  EnrollInv'
  BY <1>6, EdgeFaultKeeps
<1>7. CASE CrashConsole
  BY <1>7, CrashConsoleKeeps
<1>8. CASE RestartSigner \/ (\E r \in net : Lose(r)) \/ UNCHANGED vars
  BY <1>8, OtherKeeps
<1> QED
  BY <1>1, <1>2, <1>3, <1>4, <1>5, <1>6, <1>7, <1>8 DEF Next

LEMMA EnrollInvHolds == Spec => []EnrollInv
  BY InitEnrollInv, NextEnrollInv, PTL DEF Spec

(* The console, its two files, the requests on their way and the edges are  *)
(* always well typed, whatever crashes and whatever arrives late.           *)
THEOREM EnrollTypeCorrect == Spec => []TypeOK
<1>1. EnrollInv => TypeOK
  BY DEF EnrollInv
<1> QED
  BY <1>1, EnrollInvHolds, PTL

(* registerEdge never leaves two pending registrations of one id on disk.   *)
THEOREM AlwaysOnePending == Spec => []OnePendingPerId
<1>1. EnrollInv => OnePendingPerId
  <2> SUFFICES ASSUME EnrollInv, NEW id \in Ids
               PROVE  Cardinality(Pending(id)) <= 1
    BY DEF OnePendingPerId
  <2>1. \A i, j \in Pending(id) : i = j
    BY DEF EnrollInv, FileInv, ListOK, OnePending, Pending, ById
  <2>2. CASE Pending(id) = {}
    BY <2>2, FS_EmptySet
  <2>3. CASE Pending(id) # {}
    <3>1. PICK i : Pending(id) = {i}
      BY <2>1, <2>3
    <3> QED
      BY <3>1, FS_Singleton
  <2> QED
    BY <2>2, <2>3
<1> QED
  BY <1>1, EnrollInvHolds, PTL

(* An approved registration has its client, also after a crash between the  *)
(* two writes of an approval.                                               *)
THEOREM ApprovedAlwaysHasClient == Spec => []ApprovedHasClient
<1>1. EnrollInv => ApprovedHasClient
  BY DEF EnrollInv, FileInv, Backed, ApprovedHasClient, Regs
<1> QED
  BY <1>1, EnrollInvHolds, PTL

(* No answer, script or stored file gives an edge another client's token.   *)
THEOREM AlwaysOwnToken == Spec => []HoldsOwnToken
<1>1. EnrollInv => HoldsOwnToken
  BY DEF EnrollInv, TokenInv, TokensOf, Known, HoldsOwnToken
<1> QED
  BY <1>1, EnrollInvHolds, PTL

(* A used install token never becomes usable again: a registration that is  *)
(* approved a second time would have to be without its client, which none   *)
(* that was used can be.                                                    *)
THEOREM UsedStaysUsed == Spec => UsedIsForever
<1>1. EnrollInv /\ [Next]_vars =>
         [~job.busy /\ job'.busy =>
             \A i \in DOMAIN regsFile.list :
                regsFile.list[i].used =>
                   i \in DOMAIN job'.list /\ job'.list[i].used]_vars
  <2> SUFFICES ASSUME EnrollInv, Next, ~job.busy, job'.busy
               PROVE  KeepsUsed(job'.list)
    BY DEF KeepsUsed
  <2>1. ASSUME NEW r \in net, Handle(r)  PROVE KeepsUsed(job'.list)
    BY <2>1, HandleBegun
  <2>2. ASSUME NEW id \in Ids, Approve(id) \/ Reject(id)
        PROVE  KeepsUsed(job'.list)
    BY <2>2, AdminBegun
  <2>3. ~WriteFile /\ ~Finish /\ ~CrashConsole
    BY DEF WriteFile, Finish, CrashConsole
  <2>4. ~(UNCHANGED job)
    OBVIOUS
  <2>5. ~RestartSigner /\ \A r \in net : ~Lose(r)
    BY <2>4 DEF RestartSigner, Lose, console
  <2>6. \A e \in Edges : ~EdgeStep(e) /\ ~RunScript(e) /\ ~Reinstall(e)
    BY <2>4 DEF EdgeStep, StartEdge, Poll, StoreToken, Report, Validate,
                RunScript, Reinstall, console
  <2>7. \A e \in Edges : ~CrashEdge(e) /\ ~Timeout(e)
    BY <2>4 DEF CrashEdge, Timeout, OrphanJob
  <2> QED
    BY <2>1, <2>2, <2>3, <2>5, <2>6, <2>7 DEF Next
<1> QED
  BY <1>1, EnrollInvHolds, PTL DEF Spec, UsedIsForever
=============================================================================
