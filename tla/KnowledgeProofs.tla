---------------------------- MODULE KnowledgeProofs ----------------------------
(***************************************************************************)
(* Proofs about the knowledge base: the components of MCKnowledge.         *)
(*                                                                         *)
(* The ledger of the gateway follows its posts by at most one row; each    *)
(* place of the loops tells whether that row is still owed.                *)
(***************************************************************************)
EXTENDS ModelGateway, KnowledgeChain, AgentTurn, TLAPS

----------------------------------------------------------------------------
(* The gateway.                                                            *)

Places == {"step", "round", "link", "tries", "error", "body", "text"}

\* Where a call stands is a record with the fields of Fresh.
CallFits(c) ==
  /\ DOMAIN call[c] = Places
  /\ call[c].step \in Steps
  /\ call[c].step = "told" => c \in ToolProbes

\* Before a post every row is written; a post in flight owes a row for the model it
\* went to; an answer may belong to a post that already has one.
RowsOwed(c) ==
  LET sent == Len(posted[c])
      told == Len(egress[c])
  IN
  /\ call[c].step \in {"idle", "posting", "refusing"} => sent = told
  /\ call[c].step \in {"sent", "caught"} => sent = told + 1 /\ posted[c][sent] = Chosen(c)
  /\ call[c].step = "answered" =>
        sent = told \/ (sent = told + 1 /\ posted[c][sent] = Chosen(c))
  /\ call[c].step \in {"returned", "raised"} => sent <= told
  /\ sent <= told + 1

\* The rows name the models of the posts.
RowsNameModels(c) ==
  \A n \in 1..Len(posted[c]) : n <= Len(egress[c]) => egress[c][n].model = posted[c][n]

LedgerOf(c) ==
  /\ CallFits(c)
  /\ \E S : posted[c] \in Seq(S)
  /\ \E S : egress[c] \in Seq(S)
  /\ RowsOwed(c)
  /\ RowsNameModels(c)

LedgerInv ==
  /\ DOMAIN call = Calls /\ DOMAIN posted = Calls /\ DOMAIN egress = Calls
  /\ \A c \in Calls : LedgerOf(c)

\* No call is made at the start.
LEMMA LedgerBegins == GatewayInit => LedgerInv
<1> SUFFICES ASSUME GatewayInit, NEW c \in Calls PROVE LedgerOf(c)
  BY DEF GatewayInit, LedgerInv
<1>1. call[c] = Fresh /\ posted[c] = <<>> /\ egress[c] = <<>>
  BY DEF GatewayInit
<1>2. <<>> \in Seq({}) /\ Len(<<>>) = 0
  OBVIOUS
<1>3. CallFits(c)
  BY <1>1 DEF CallFits, Places, Fresh, Steps
<1>4. RowsOwed(c) /\ RowsNameModels(c)
  BY <1>1, <1>2 DEF RowsOwed, RowsNameModels, Fresh
<1>5. QED
  BY <1>1, <1>2, <1>3, <1>4 DEF LedgerOf

\* One more element of a sequence.
LEMMA OneMore ==
  ASSUME NEW S, NEW s \in Seq(S), NEW e
  PROVE  /\ \E T : Append(s, e) \in Seq(T)
         /\ Len(s) \in Nat /\ Len(Append(s, e)) = Len(s) + 1
         /\ Append(s, e)[Len(s) + 1] = e
         /\ \A n \in 1..Len(s) : Append(s, e)[n] = s[n]
<1>1. s \in Seq(S \cup {e}) /\ e \in S \cup {e}
  OBVIOUS
<1>2. Append(s, e) \in Seq(S \cup {e})
  BY <1>1
<1>3. QED
  BY <1>1, <1>2

\* A step of one call leaves the others alone.
LEMMA LedgerStep ==
  ASSUME LedgerInv, NEW c \in Calls, LedgerOf(c)',
         NEW k, call' = [call EXCEPT ![c] = k],
         posted' = posted \/ \E e : posted' = [posted EXCEPT ![c] = e],
         egress' = egress \/ \E e : egress' = [egress EXCEPT ![c] = e]
  PROVE  LedgerInv'
<1>1. DOMAIN call' = Calls /\ DOMAIN posted' = Calls /\ DOMAIN egress' = Calls
  BY DEF LedgerInv
<1>2. ASSUME NEW d \in Calls, d # c PROVE LedgerOf(d)'
  <2>1. call'[d] = call[d] /\ posted'[d] = posted[d] /\ egress'[d] = egress[d]
    BY <1>2 DEF LedgerInv
  <2>2. LedgerOf(d)
    BY DEF LedgerInv
  <2>3. QED
    BY <2>1, <2>2 DEF LedgerOf, CallFits, RowsOwed, RowsNameModels, Chosen
<1>3. QED
  BY <1>1, <1>2 DEF LedgerInv

\* What follows a failed attempt is another attempt or an end of the loops.
LEMMA AfterFits ==
  ASSUME NEW k, DOMAIN k = Places,
         NEW left
  PROVE  LET a == After(k, left) IN
         /\ DOMAIN a = Places
         /\ a.step \in {"posting", "answered", "refusing"}
BY DEF After, Places

\* Every step of a call keeps its ledger.
LEMMA LedgerInvStep == LedgerInv /\ [GatewayNext]_gatewayVars => LedgerInv'
<1> SUFFICES ASSUME LedgerInv, [GatewayNext]_gatewayVars PROVE LedgerInv'
  OBVIOUS
<1>1. CASE UNCHANGED gatewayVars
  BY <1>1 DEF gatewayVars, LedgerInv, LedgerOf, CallFits, RowsOwed, RowsNameModels, Chosen
<1>2. ASSUME NEW c \in Calls, GatewayStep(c) PROVE LedgerInv'
  <2>0. /\ LedgerOf(c)
        /\ DOMAIN call = Calls /\ DOMAIN posted = Calls /\ DOMAIN egress = Calls
    BY DEF LedgerInv
  <2>P. PICK S : posted[c] \in Seq(S)
    BY <2>0 DEF LedgerOf
  <2>E. PICK T : egress[c] \in Seq(T)
    BY <2>0 DEF LedgerOf
  <2>L. Len(posted[c]) \in Nat /\ Len(egress[c]) \in Nat
    BY <2>P, <2>E
  \* The call moves on without a post or a row.
  <2>1. ASSUME NEW k, call' = [call EXCEPT ![c] = k], UNCHANGED <<posted, egress>>,
               DOMAIN k = Places,
               k.step \in Steps, k.link = call[c].link,
               \/ call[c].step \in {"idle", "posting", "refusing"} /\ k.step = "posting"
               \/ call[c].step = "sent" /\ k.step \in {"answered", "caught"}
               \/ k.step \in {"escaped", "killed"}
               \/ k.step = "told" /\ c \in ToolProbes
        PROVE  LedgerInv'
    <3>1. call'[c] = k /\ posted'[c] = posted[c] /\ egress'[c] = egress[c]
      BY <2>0, <2>1
    <3>2. Chosen(c)' = Chosen(c)
      BY <2>1, <3>1 DEF Chosen
    <3>3. RowsOwed(c)'
      BY <2>0, <2>1, <2>L, <3>1, <3>2 DEF LedgerOf, RowsOwed
    <3>4. LedgerOf(c)'
      BY <2>0, <2>1, <3>1, <3>3 DEF LedgerOf, CallFits, RowsNameModels
    <3>5. QED
      BY <2>1, <3>4, LedgerStep
  \* A row is written, for the last post or for a refusal.
  <2>2. ASSUME NEW outcome, NEW model, Record(c, outcome, model),
               NEW k, call' = [call EXCEPT ![c] = k], UNCHANGED posted,
               DOMAIN k = Places,
               k.step \in Steps,
               \/ Len(posted[c]) = Len(egress[c]) /\ k.step \in {"returned", "raised"}
               \/ /\ Len(posted[c]) = Len(egress[c]) + 1 /\ posted[c][Len(posted[c])] = model
                  /\ k.step \in {"posting", "answered", "refusing", "returned", "raised"}
        PROVE  LedgerInv'
    <3> DEFINE row == [outcome |-> outcome, model |-> model]
    <3>1. call'[c] = k /\ posted'[c] = posted[c] /\ egress'[c] = Append(egress[c], row)
      BY <2>0, <2>2 DEF Record
    <3>A. /\ \E U : Append(egress[c], row) \in Seq(U)
          /\ Len(egress[c]) \in Nat /\ Len(Append(egress[c], row)) = Len(egress[c]) + 1
          /\ Append(egress[c], row)[Len(egress[c]) + 1] = row
          /\ \A n \in 1..Len(egress[c]) : Append(egress[c], row)[n] = egress[c][n]
      BY <2>E, OneMore, Zenon
    <3>2. /\ \E U : egress'[c] \in Seq(U)
          /\ Len(egress'[c]) = Len(egress[c]) + 1
          /\ egress'[c][Len(egress[c]) + 1] = row
          /\ \A n \in 1..Len(egress[c]) : egress'[c][n] = egress[c][n]
      BY <3>1, <3>A
    <3>3. row.model = model
      OBVIOUS
    <3> HIDE DEF row
    <3>4. RowsOwed(c)'
      BY <2>2, <2>L, <3>1, <3>2 DEF RowsOwed
    <3>5. RowsNameModels(c)'
      BY <2>0, <2>2, <2>L, <3>1, <3>2, <3>3 DEF LedgerOf, RowsNameModels
    <3>6. LedgerOf(c)'
      BY <2>P, <2>2, <3>1, <3>2, <3>4, <3>5 DEF LedgerOf, CallFits
    <3>7. \E e : egress' = [egress EXCEPT ![c] = e]
      BY <2>2 DEF Record
    <3>8. QED
      BY <2>2, <3>6, <3>7, LedgerStep
  <2> DEFINE k0 == call[c]
  <2>K. DOMAIN k0 = Places
    BY <2>0 DEF LedgerOf, CallFits
  <2>3. CASE RefuseAtOnce(c)
    <3>1. PICK outcome : Record(c, outcome, Asked[c])
      BY <2>3 DEF RefuseAtOnce
    <3> DEFINE k == [k0 EXCEPT !.step = "raised"]
    <3>2. call' = [call EXCEPT ![c] = k] /\ UNCHANGED posted /\ k0.step = "idle"
      BY <2>3 DEF RefuseAtOnce
    <3>3. /\ DOMAIN k = Places
          /\ k.step = "raised" /\ k.step \in Steps
      BY <2>K DEF Places, Steps
    <3>4. Len(posted[c]) = Len(egress[c])
      BY <2>0, <3>2 DEF LedgerOf, RowsOwed
    <3> HIDE DEF k, k0
    <3>5. QED
      BY <2>2, <3>1, <3>2, <3>3, <3>4
  <2>4. CASE Admit(c)
    <3> DEFINE k == [k0 EXCEPT !.step = "posting"]
    <3>1. call' = [call EXCEPT ![c] = k] /\ UNCHANGED <<posted, egress>> /\ call[c].step = "idle"
      BY <2>4 DEF Admit
    <3>2. /\ DOMAIN k = Places
          /\ k.step = "posting" /\ k.step \in Steps /\ k.link = call[c].link
      BY <2>K DEF Places, Steps
    <3> HIDE DEF k
    <3>3. QED
      BY <2>1, <3>1, <3>2
  <2>5. CASE Post(c)
    <3> DEFINE k == [k0 EXCEPT !.step = "sent"]
    <3>1. /\ call' = [call EXCEPT ![c] = k] /\ UNCHANGED egress /\ call[c].step = "posting"
          /\ posted' = [posted EXCEPT ![c] = Append(posted[c], Chosen(c))]
      BY <2>5 DEF Post
    <3>2. /\ DOMAIN k = Places
          /\ k.step = "sent" /\ k.step \in Steps /\ k.link = call[c].link
      BY <2>K DEF Places, Steps
    <3> HIDE DEF k, k0
    <3>3. call'[c] = k /\ egress'[c] = egress[c] /\ posted'[c] = Append(posted[c], Chosen(c))
      BY <2>0, <3>1
    <3>4. Chosen(c)' = Chosen(c)
      BY <3>2, <3>3 DEF Chosen
    <3>A. /\ \E U : Append(posted[c], Chosen(c)) \in Seq(U)
          /\ Len(posted[c]) \in Nat /\ Len(Append(posted[c], Chosen(c))) = Len(posted[c]) + 1
          /\ Append(posted[c], Chosen(c))[Len(posted[c]) + 1] = Chosen(c)
          /\ \A n \in 1..Len(posted[c]) : Append(posted[c], Chosen(c))[n] = posted[c][n]
      BY <2>P, OneMore, Zenon
    <3>5. /\ \E U : posted'[c] \in Seq(U)
          /\ Len(posted'[c]) = Len(posted[c]) + 1
          /\ posted'[c][Len(posted[c]) + 1] = Chosen(c)
          /\ \A n \in 1..Len(posted[c]) : posted'[c][n] = posted[c][n]
      BY <3>3, <3>A
    <3>6. Len(posted[c]) = Len(egress[c])
      BY <2>0, <3>1 DEF LedgerOf, RowsOwed
    <3>7. RowsOwed(c)'
      BY <2>L, <3>2, <3>3, <3>4, <3>5, <3>6 DEF RowsOwed
    <3>8. RowsNameModels(c)'
      BY <2>0, <2>L, <3>3, <3>5, <3>6 DEF LedgerOf, RowsNameModels
    <3>9. LedgerOf(c)'
      BY <2>E, <3>2, <3>3, <3>5, <3>7, <3>8 DEF LedgerOf, CallFits
    <3>10. QED
      BY <3>1, <3>9, LedgerStep
  <2>6. CASE ReplyText(c)
    <3> DEFINE k == [k0 EXCEPT !.step = "answered", !.body = Chosen(c), !.text = TRUE]
    <3>1. call' = [call EXCEPT ![c] = k] /\ UNCHANGED <<posted, egress>> /\ call[c].step = "sent"
      BY <2>6 DEF ReplyText
    <3>2. /\ DOMAIN k = Places
          /\ k.step = "answered" /\ k.step \in Steps /\ k.link = call[c].link
      BY <2>K DEF Places, Steps
    <3> HIDE DEF k
    <3>3. QED
      BY <2>1, <3>1, <3>2
  <2>7. CASE ReplyNoText(c)
    <3> DEFINE k == [k0 EXCEPT !.step = "caught", !.body = Chosen(c), !.error = "other"]
    <3>1. call' = [call EXCEPT ![c] = k] /\ UNCHANGED <<posted, egress>> /\ call[c].step = "sent"
      BY <2>7 DEF ReplyNoText
    <3>2. /\ DOMAIN k = Places
          /\ k.step = "caught" /\ k.step \in Steps /\ k.link = call[c].link
      BY <2>K DEF Places, Steps
    <3> HIDE DEF k
    <3>3. QED
      BY <2>1, <3>1, <3>2
  <2>8. CASE ReplyError(c)
    <3>1. PICK e \in Errors : call' = [call EXCEPT ![c].step = "caught", ![c].error = e]
      BY <2>8 DEF ReplyError
    <3> DEFINE k == [k0 EXCEPT !.step = "caught", !.error = e]
    <3>2. call' = [call EXCEPT ![c] = k] /\ UNCHANGED <<posted, egress>> /\ call[c].step = "sent"
      BY <2>8, <3>1 DEF ReplyError
    <3>3. /\ DOMAIN k = Places
          /\ k.step = "caught" /\ k.step \in Steps /\ k.link = call[c].link
      BY <2>K DEF Places, Steps
    <3> HIDE DEF k
    <3>4. QED
      BY <2>1, <3>2, <3>3
  <2>9. CASE RecordFailure(c)
    <3> DEFINE k == After(k0, Len(Chain(c)))
    <3>1. /\ Record(c, "failed", Chosen(c)) /\ call' = [call EXCEPT ![c] = k] /\ UNCHANGED posted
          /\ call[c].step = "caught"
      BY <2>9 DEF RecordFailure
    <3>2. /\ DOMAIN k = Places
          /\ k.step \in {"posting", "answered", "refusing"}
      BY <2>K, AfterFits
    <3>3. Len(posted[c]) = Len(egress[c]) + 1 /\ posted[c][Len(posted[c])] = Chosen(c)
      BY <2>0, <3>1 DEF LedgerOf, RowsOwed
    <3>4. k.step \in Steps
      BY <3>2 DEF Steps
    <3> HIDE DEF k
    <3>5. QED
      BY <2>2, <3>1, <3>2, <3>3, <3>4
  <2>10. CASE Return(c) \/ Raise(c)
    <3>1. PICK outcome : Record(c, outcome, Chosen(c))
      BY <2>10 DEF Return, Raise
    <3>2. PICK s \in {"returned", "raised"} : call' = [call EXCEPT ![c].step = s]
      BY <2>10 DEF Return, Raise
    <3> DEFINE k == [k0 EXCEPT !.step = s]
    <3>3. call' = [call EXCEPT ![c] = k] /\ UNCHANGED posted /\ call[c].step \in {"answered", "refusing"}
      BY <2>10, <3>2 DEF Return, Raise
    <3>4. /\ DOMAIN k = Places
          /\ k.step = s /\ k.step \in Steps
      BY <2>K DEF Places, Steps
    <3>5. \/ Len(posted[c]) = Len(egress[c])
          \/ Len(posted[c]) = Len(egress[c]) + 1 /\ posted[c][Len(posted[c])] = Chosen(c)
      BY <2>0, <3>3 DEF LedgerOf, RowsOwed
    <3> HIDE DEF k
    <3>6. QED
      BY <2>2, <3>1, <3>3, <3>4, <3>5
  <2>11. CASE KillCall(c)
    <3> DEFINE k == [k0 EXCEPT !.step = "killed"]
    <3>1. call' = [call EXCEPT ![c] = k] /\ UNCHANGED <<posted, egress>>
      BY <2>11 DEF KillCall
    <3>2. /\ DOMAIN k = Places
          /\ k.step = "killed" /\ k.step \in Steps /\ k.link = call[c].link
      BY <2>K DEF Places, Steps
    <3> HIDE DEF k
    <3>3. QED
      BY <2>1, <3>1, <3>2
  <2>12. CASE ReplyUndecodable(c)
    <3> DEFINE k == [k0 EXCEPT !.step = "escaped"]
    <3>1. call' = [call EXCEPT ![c] = k] /\ UNCHANGED <<posted, egress>>
      BY <2>12 DEF ReplyUndecodable
    <3>2. /\ DOMAIN k = Places
          /\ k.step = "escaped" /\ k.step \in Steps /\ k.link = call[c].link
      BY <2>K DEF Places, Steps
    <3> HIDE DEF k
    <3>3. QED
      BY <2>1, <3>1, <3>2
  <2>13. CASE EndToolProbe(c)
    <3> DEFINE k == [k0 EXCEPT !.step = "told"]
    <3>1. call' = [call EXCEPT ![c] = k] /\ UNCHANGED <<posted, egress>> /\ c \in ToolProbes
      BY <2>13 DEF EndToolProbe
    <3>2. /\ DOMAIN k = Places
          /\ k.step = "told" /\ k.step \in Steps /\ k.link = call[c].link
      BY <2>K DEF Places, Steps
    <3> HIDE DEF k
    <3>3. QED
      BY <2>1, <3>1, <3>2
  <2>14. QED
    BY <1>2, <2>3, <2>4, <2>5, <2>6, <2>7, <2>8, <2>9, <2>10, <2>11, <2>12, <2>13 DEF GatewayStep
<1>3. QED
  BY <1>1, <1>2 DEF GatewayNext

\* Behaviour of ModelGateway: for any calls, chains and retries, what crossed the
\* boundary is in the audit, but for the last post of a call that has not ended, was
\* killed or got a reply it could not decode, and for the posts of supports_tools.
THEOREM WhatCrossedIsAudited == GatewaySpec => []LedgerCovers
<1>1. LedgerInv => LedgerCovers
  <2> SUFFICES ASSUME LedgerInv, NEW c \in Calls
               PROVE  /\ RowsNameModels(c)
                      /\ Len(posted[c]) <= Len(egress[c]) + 1
                      /\ Len(posted[c]) > Len(egress[c])
                           => \/ call[c].step \in {"sent", "caught", "answered", "escaped", "killed"}
                              \/ c \in ToolProbes
    BY DEF LedgerCovers, RowsNameModels
  <2>1. LedgerOf(c) /\ Len(posted[c]) \in Nat /\ Len(egress[c]) \in Nat
    BY DEF LedgerInv, LedgerOf
  <2>2. QED
    BY <2>1 DEF LedgerOf, CallFits, RowsOwed, Steps
<1>2. QED
  BY <1>1, LedgerBegins, LedgerInvStep, PTL DEF GatewaySpec

----------------------------------------------------------------------------
(* The chain of passes.                                                    *)

ReadingFits ==
  /\ \E S : claims \in Seq(S)
  /\ Len(claims) <= MaxClaims
  /\ DOMAIN reading = Ids
  /\ \A c \in Ids : reading[c] = "knowledge" => c \in placed \/ c \in gaps

\* Nothing is read at the start.
LEMMA ReadingBegins == ChainInit => ReadingFits
<1> SUFFICES ASSUME ChainInit PROVE ReadingFits
  OBVIOUS
<1>1. <<>> \in Seq({}) /\ Len(<<>>) = 0
  OBVIOUS
<1>2. QED
  BY <1>1, ChainAssumption DEF ChainInit, ReadingFits

\* Every step of the chain keeps the readings with their places.
LEMMA ReadingStep == ReadingFits /\ [ChainNext]_chainVars => ReadingFits'
<1> SUFFICES ASSUME ReadingFits, [ChainNext]_chainVars PROVE ReadingFits'
  OBVIOUS
<1>1. CASE UNCHANGED <<claims, reading, placed, gaps>>
  BY <1>1 DEF ReadingFits, Ids
<1>2. ASSUME NEW p \in Passes, RecordFirst(p) \/ RecordRetry(p) PROVE ReadingFits'
  <2>1. PICK f, answer, kept : Write(f, answer, kept) /\ answer \in Answers
    BY <1>2 DEF RecordFirst, RecordRetry
  <2>2. UNCHANGED <<reading, placed, gaps>>
    BY <1>2 DEF RecordFirst, RecordRetry
  <2>3. claims' = claims \/ (claims' = Append(claims, f) /\ Len(claims) < MaxClaims)
    BY <2>1 DEF Write, Answers
  <2>4. PICK S : claims \in Seq(S)
    BY DEF ReadingFits
  <2>A. (\E T : Append(claims, f) \in Seq(T)) /\ Len(claims) \in Nat
        /\ Len(Append(claims, f)) = Len(claims) + 1
    BY <2>4, OneMore, Zenon
  <2>5. claims' = claims \/ ((\E T : claims' \in Seq(T)) /\ Len(claims') <= MaxClaims)
    BY <2>3, <2>A, ChainAssumption
  <2>6. QED
    BY <2>2, <2>5 DEF ReadingFits, Ids
<1>3. ASSUME NEW p \in Passes, RecordReading(p) PROVE ReadingFits'
  <2>1. UNCHANGED claims
    BY <1>3 DEF RecordReading
  <2>2. PICK admission \in Admissions, onTopic \in BOOLEAN, missing \in BOOLEAN :
          /\ reading' = [reading EXCEPT ![pass[p].item] = IF @ = "none" THEN admission ELSE @]
          /\ placed' = IF onTopic THEN placed \cup {pass[p].item} ELSE placed
          /\ gaps' = IF NotesGap(admission, onTopic, missing) THEN gaps \cup {pass[p].item} ELSE gaps
    BY <1>3 DEF RecordReading
  <2>3. ASSUME NEW c \in Ids, reading'[c] = "knowledge" PROVE c \in placed' \/ c \in gaps'
    <3>1. CASE reading[c] = "knowledge"
      BY <2>2, <3>1 DEF ReadingFits
    <3>2. CASE reading[c] # "knowledge"
      <4>1. c = pass[p].item /\ admission = "knowledge"
        BY <2>2, <2>3, <3>2 DEF ReadingFits
      <4>2. QED
        BY <2>2, <4>1 DEF NotesGap
    <3>3. QED
      BY <3>1, <3>2
  <2>4. DOMAIN reading' = Ids
    BY <2>2 DEF ReadingFits
  <2>5. QED
    BY <2>1, <2>3, <2>4 DEF ReadingFits, Ids
<1>4. QED
  BY <1>1, <1>2, <1>3
     DEF ChainNext, PassStep, chainVars, tables, StartPass, OpenStage, Ask, Refused, EndRead, EndPass,
         KillPass, ReadRun, RecordLink, RecordMentions, Embed, LoadDesk, DecideOnDesk

\* Behaviour of record_reading: however readers overlap, an admitted statement has a
\* topic or a gap.
THEOREM AdmittedHavePlace == ChainSpec => []PlacedOrGap
<1>1. ReadingFits => PlacedOrGap
  <2> SUFFICES ASSUME ReadingFits, NEW c \in Admitted PROVE c \in placed \/ c \in gaps
    BY DEF PlacedOrGap
  <2>1. Len(claims) \in Nat
    BY DEF ReadingFits
  <2>2. c \in Ids /\ reading[c] = "knowledge"
    BY <2>1, ChainAssumption DEF Admitted, Statements, Ids, ReadingFits
  <2>3. QED
    BY <2>2 DEF ReadingFits
<1>2. QED
  BY <1>1, ReadingBegins, ReadingStep, PTL DEF ChainSpec

Promotion(c) == [kind |-> "status_promotion", claim |-> c, verdict |-> "confirmed"]

DeskFits ==
  /\ \E S : claims \in Seq(S)
  /\ Len(claims) <= MaxClaims
  /\ DOMAIN status = Ids
  /\ \E S : decisions \in Seq(S)
  /\ shown \subseteq {"status_promotion", "freshness_review"} \X Ids
  /\ PromotionStands

\* Behaviour of grant_birth_status and decide_promotion: a statement stands at
\* operationalization exactly when the owner confirmed its promotion.
THEOREM OwnersPromotionsStand == ChainSpec => []PromotionStands
<1>1. ChainInit => DeskFits
  <2> SUFFICES ASSUME ChainInit PROVE DeskFits
    OBVIOUS
  <2>1. <<>> \in Seq({}) /\ Len(<<>>) = 0
    OBVIOUS
  <2>2. QED
    BY <2>1, ChainAssumption DEF ChainInit, DeskFits, PromotionStands
<1>2. DeskFits /\ [ChainNext]_chainVars => DeskFits'
  <2> SUFFICES ASSUME DeskFits, [ChainNext]_chainVars PROVE DeskFits'
    OBVIOUS
  <2>1. CASE UNCHANGED <<claims, status, decisions, shown>>
    BY <2>1 DEF DeskFits, PromotionStands, Ids
  <2>2. ASSUME NEW p \in Passes, RecordFirst(p) \/ RecordRetry(p) PROVE DeskFits'
    <3>1. PICK f, answer, kept : Write(f, answer, kept) /\ answer \in Answers
      BY <2>2 DEF RecordFirst, RecordRetry
    <3>2. UNCHANGED <<status, decisions, shown>>
      BY <2>2 DEF RecordFirst, RecordRetry, desk
    <3>3. claims' = claims \/ (claims' = Append(claims, f) /\ Len(claims) < MaxClaims)
      BY <3>1 DEF Write, Answers
    <3>4. PICK S : claims \in Seq(S)
      BY DEF DeskFits
    <3>A. (\E T : Append(claims, f) \in Seq(T)) /\ Len(claims) \in Nat
          /\ Len(Append(claims, f)) = Len(claims) + 1
      BY <3>4, OneMore, Zenon
    <3>5. claims' = claims \/ ((\E T : claims' \in Seq(T)) /\ Len(claims') <= MaxClaims)
      BY <3>3, <3>A, ChainAssumption
    <3>6. QED
      BY <3>2, <3>5 DEF DeskFits, PromotionStands, Ids
  <2>3. ASSUME NEW p \in Passes, EndRead(p) PROVE DeskFits'
    <3>1. UNCHANGED <<claims, decisions, shown>> /\ GrantBirth
      BY <2>3 DEF EndRead, desk
    <3>2. DOMAIN status' = Ids
          /\ \A c \in Ids : status'[c] = "operationalization" <=> status[c] = "operationalization"
      BY <3>1 DEF GrantBirth, DeskFits
    <3>3. QED
      BY <3>1, <3>2 DEF DeskFits, PromotionStands, Ids
  <2>4. CASE LoadDesk
    <3>1. UNCHANGED <<claims, status, decisions>>
      BY <2>4 DEF LoadDesk, tables
    <3>2. Admitted \subseteq Ids
      <4>1. Len(claims) \in Nat
        BY DEF DeskFits
      <4>2. QED
        BY <4>1, ChainAssumption DEF Admitted, Statements, Ids, DeskFits
    <3>3. shown' \subseteq {"status_promotion", "freshness_review"} \X Ids
      BY <2>4, <3>2 DEF LoadDesk, PromotionQueue, FreshnessQueue
    <3>4. QED
      BY <3>1, <3>3 DEF DeskFits, PromotionStands, Ids
  <2>5. CASE DecideOnDesk
    <3>1. PICK item \in shown, verdict \in {"confirmed", "rejected"} :
            /\ decisions' = Append(decisions, [kind |-> item[1], claim |-> item[2], verdict |-> verdict])
            /\ status' = IF item[1] = "status_promotion" /\ verdict = "confirmed"
                         THEN [status EXCEPT ![item[2]] = "operationalization"] ELSE status
            /\ shown' = shown \ {item}
            /\ UNCHANGED claims
      BY <2>5 DEF DecideOnDesk
    <3> DEFINE new == [kind |-> item[1], claim |-> item[2], verdict |-> verdict]
    <3>2. item[1] \in {"status_promotion", "freshness_review"} /\ item[2] \in Ids
      BY DEF DeskFits
    <3>3. PICK S : decisions \in Seq(S)
      BY DEF DeskFits
    <3>4. \A c : new = Promotion(c) <=> (item[1] = "status_promotion" /\ item[2] = c /\ verdict = "confirmed")
      BY DEF Promotion
    <3>5. new = [kind |-> item[1], claim |-> item[2], verdict |-> verdict]
      OBVIOUS
    <3> HIDE DEF new
    <3>6. decisions' = Append(decisions, new)
      BY <3>1, <3>5
    <3>A. /\ \E T : Append(decisions, new) \in Seq(T)
          /\ Len(decisions) \in Nat /\ Len(Append(decisions, new)) = Len(decisions) + 1
          /\ Append(decisions, new)[Len(decisions) + 1] = new
          /\ \A n \in 1..Len(decisions) : Append(decisions, new)[n] = decisions[n]
      BY <3>3, OneMore, Zenon
    <3>7. /\ \E T : decisions' \in Seq(T)
          /\ Len(decisions) \in Nat /\ Len(decisions') = Len(decisions) + 1
          /\ decisions'[Len(decisions) + 1] = new
          /\ \A n \in 1..Len(decisions) : decisions'[n] = decisions[n]
      BY <3>6, <3>A
    <3>8. ASSUME NEW c \in Ids
          PROVE  status'[c] = "operationalization"
                   <=> \E n \in 1..Len(decisions') : decisions'[n] = Promotion(c)
      <4>1. status[c] = "operationalization" <=> \E n \in 1..Len(decisions) : decisions[n] = Promotion(c)
        BY DEF DeskFits, PromotionStands, Promotion
      <4>2. (\E n \in 1..Len(decisions') : decisions'[n] = Promotion(c))
              <=> ((\E n \in 1..Len(decisions) : decisions[n] = Promotion(c)) \/ new = Promotion(c))
        BY <3>7
      <4>3. status'[c] = "operationalization"
              <=> (status[c] = "operationalization"
                   \/ (item[1] = "status_promotion" /\ item[2] = c /\ verdict = "confirmed"))
        BY <3>1, <3>2 DEF DeskFits
      <4>4. QED
        BY <3>4, <4>1, <4>2, <4>3
    <3>9. DOMAIN status' = Ids
      BY <3>1 DEF DeskFits
    <3>10. PromotionStands'
      BY <3>8 DEF PromotionStands, Promotion, Ids
    <3>11. QED
      BY <3>1, <3>7, <3>9, <3>10 DEF DeskFits, Ids
  <2>6. QED
    BY <2>1, <2>2, <2>3, <2>4, <2>5
       DEF ChainNext, PassStep, chainVars, tables, desk, StartPass, OpenStage, Ask, Refused, EndPass,
           KillPass, ReadRun, RecordReading, RecordLink, RecordMentions, Embed
<1>3. DeskFits => PromotionStands
  BY DEF DeskFits
<1>4. QED
  BY <1>1, <1>2, <1>3, PTL DEF ChainSpec

PassFields == {"command", "stage", "todo", "item", "seen", "base", "mark"}

\* The statements whose reading admitted them.
InBase == {c \in Ids : reading[c] = "knowledge"}

\* What a pass has in hand it took from what was admitted.
TookFrom(k, base) ==
  /\ DOMAIN k = PassFields
  /\ k.stage > 0 /\ Stages[k.stage] = "find-entities" =>
       k.todo \subseteq base /\ (k.item # Nothing => k.item \in base)
  /\ k.stage > 0 /\ Stages[k.stage] = "link-claims" =>
       /\ \A q \in k.todo : q[1] \in base /\ q[2] \in base
       /\ k.item # Nothing => k.item[1] \in base /\ k.item[2] \in base

OutFits ==
  /\ DOMAIN pass = Passes
  /\ \A p \in Passes : TookFrom(pass[p], InBase)
  /\ named \subseteq InBase
  /\ \A l \in links : l[1] \in InBase /\ l[2] \in InBase
  /\ \A i \in shown : i[2] \in InBase
  /\ \A c \in Ids : status[c] = "operationalization" => c \in InBase
  /\ DOMAIN status = Ids

\* What is admitted is a statement of the base, and stays one.
LEMMA AdmittedInBase == ASSUME ReadingFits PROVE Admitted \subseteq InBase /\ Statements \subseteq Ids
<1>1. Len(claims) \in Nat
  BY DEF ReadingFits
<1>2. QED
  BY <1>1, ChainAssumption DEF Admitted, InBase, Statements, Ids, ReadingFits

\* Readings are never taken back.
LEMMA BaseGrows == ASSUME ReadingFits, [ChainNext]_chainVars PROVE InBase \subseteq InBase'
<1>1. CASE UNCHANGED reading
  BY <1>1 DEF InBase, Ids
<1>2. ASSUME NEW p \in Passes, RecordReading(p) PROVE InBase \subseteq InBase'
  <2>1. PICK admission \in Admissions :
          reading' = [reading EXCEPT ![pass[p].item] = IF @ = "none" THEN admission ELSE @]
    BY <1>2 DEF RecordReading
  <2>2. QED
    BY <2>1 DEF InBase, Ids, ReadingFits
<1>3. QED
  BY <1>1, <1>2
     DEF ChainNext, PassStep, chainVars, tables, StartPass, OpenStage, Ask, Refused, EndRead, EndPass,
         KillPass, RecordFirst, RecordRetry, ReadRun, RecordLink, RecordMentions, Embed, LoadDesk, DecideOnDesk

\* What was taken from the base is in a larger one.
LEMMA TookStays ==
  ASSUME NEW k, NEW small, NEW large, TookFrom(k, small), small \subseteq large
  PROVE  TookFrom(k, large)
BY DEF TookFrom

\* One pass goes on, and what its step writes is of the base.
LEMMA PassGoesOn ==
  ASSUME OutFits, NEW p \in Passes, NEW k, pass' = [pass EXCEPT ![p] = k],
         TookFrom(k, InBase), InBase \subseteq InBase'
  PROVE  DOMAIN pass' = Passes /\ \A q \in Passes : TookFrom(pass'[q], InBase')
<1>1. ASSUME NEW q \in Passes PROVE TookFrom(pass'[q], InBase)
  <2>1. pass'[q] = IF q = p THEN k ELSE pass[q]
    BY DEF OutFits
  <2>2. QED
    BY <2>1 DEF OutFits
<1>2. \A q \in Passes : TookFrom(pass'[q], InBase')
  BY <1>1, TookStays
<1>3. QED
  BY <1>2 DEF OutFits

\* The tables stay as they are, or take what is of the base.
LEMMA TablesStay ==
  ASSUME OutFits, InBase \subseteq InBase', named' \subseteq named \cup InBase,
         \A l \in links' : l \in links \/ (l[1] \in InBase /\ l[2] \in InBase),
         \A i \in shown' : i \in shown \/ i[2] \in InBase,
         DOMAIN status' = Ids,
         \A c \in Ids : status'[c] = "operationalization" => status[c] = "operationalization" \/ c \in InBase,
         DOMAIN pass' = Passes /\ \A q \in Passes : TookFrom(pass'[q], InBase')
  PROVE  OutFits'
BY DEF OutFits, Ids

\* What a pass is left with: nothing, or no item, or a part of its list.
LEMMA Lighter ==
  ASSUME NEW k, NEW base, TookFrom(k, base), NEW j, DOMAIN j = PassFields, j.stage = k.stage,
         j.todo \subseteq k.todo, j.item = Nothing \/ j.item = k.item \/ j.item \in k.todo
  PROVE  TookFrom(j, base)
BY DEF TookFrom

\* A pass between its stages has nothing in hand.
LEMMA NoStage ==
  ASSUME NEW k, NEW base, DOMAIN k = PassFields, k.stage = 0
  PROVE  TookFrom(k, base)
BY DEF TookFrom

\* A stage begins with what is pending for it.
LEMMA StageBegins ==
  ASSUME ReadingFits, NEW k, DOMAIN k = PassFields, k.item = Nothing,
         k.todo \subseteq Pending(Stages[k.stage])
  PROVE  TookFrom(k, InBase)
<1>1. ASSUME Stages[k.stage] = "find-entities" PROVE k.todo \subseteq InBase
  BY <1>1, AdmittedInBase DEF Pending, Unnamed
<1>2. ASSUME Stages[k.stage] = "link-claims" PROVE \A q \in k.todo : q[1] \in InBase /\ q[2] \in InBase
  BY <1>2, AdmittedInBase DEF Pending, Shortlist
<1>3. QED
  BY <1>1, <1>2 DEF TookFrom

\* Every step of the chain keeps it.
LEMMA OutStep == ReadingFits /\ OutFits /\ [ChainNext]_chainVars => OutFits'
<1> SUFFICES ASSUME ReadingFits, OutFits, [ChainNext]_chainVars PROVE OutFits'
  OBVIOUS
<1>0. InBase \subseteq InBase'
  BY BaseGrows
<1>1. \A p \in Passes : TookFrom(pass[p], InBase) /\ DOMAIN pass[p] = PassFields
  BY DEF OutFits, TookFrom
\* A pass goes on and no table takes anything.
<1>2. ASSUME NEW p \in Passes, NEW k, pass' = [pass EXCEPT ![p] = k], TookFrom(k, InBase),
             UNCHANGED <<named, links, shown, status>>
      PROVE  OutFits'
  <2>1. DOMAIN pass' = Passes /\ \A q \in Passes : TookFrom(pass'[q], InBase')
    BY <1>0, <1>2, PassGoesOn
  <2>2. QED
    BY <1>0, <1>2, <2>1, TablesStay DEF OutFits
<1>3. CASE UNCHANGED <<pass, named, links, shown, status>>
  <2>1. DOMAIN pass' = Passes /\ \A q \in Passes : TookFrom(pass'[q], InBase')
    BY <1>0, <1>1, <1>3, TookStays DEF OutFits
  <2>2. QED
    BY <1>0, <1>3, <2>1, TablesStay DEF OutFits
<1>4. ASSUME NEW p \in Passes, StartPass(p) PROVE OutFits'
  <2>1. PICK c : pass' = [pass EXCEPT ![p] = [Asleep EXCEPT !.command = c, !.base = spent, !.mark = "running"]]
    BY <1>4 DEF StartPass
  <2> DEFINE k == [Asleep EXCEPT !.command = c, !.base = spent, !.mark = "running"]
  <2>2. DOMAIN k = PassFields /\ k.stage = 0
    BY DEF Asleep, PassFields
  <2>3. pass' = [pass EXCEPT ![p] = k] /\ UNCHANGED <<named, links, shown, status>>
    BY <1>4, <2>1 DEF StartPass, tables, desk
  <2> HIDE DEF k
  <2>4. QED
    BY <1>2, <2>2, <2>3, NoStage
<1>5. ASSUME NEW p \in Passes, OpenStage(p) PROVE OutFits'
  <2>1. UNCHANGED <<named, links, shown, status>> /\ StageDone(p)
    BY <1>5 DEF OpenStage, tables, desk
  <2>2. pass[p].todo = {} /\ pass[p].item = Nothing
    BY <2>1 DEF StageDone
  <2>3. PICK k : /\ pass' = [pass EXCEPT ![p] = k]
                 /\ DOMAIN k = PassFields /\ k.item = Nothing /\ k.todo \subseteq Pending(Stages[k.stage])
    <3>1. CASE pass' = [pass EXCEPT ![p].stage = @ + 1, ![p].seen = "granted"]
      <4>1. pass' = [pass EXCEPT ![p] = [pass[p] EXCEPT !.stage = @ + 1, !.seen = "granted"]]
        BY <3>1
      <4>2. DOMAIN [pass[p] EXCEPT !.stage = @ + 1, !.seen = "granted"] = PassFields
        BY <1>1
      <4>3. /\ [pass[p] EXCEPT !.stage = @ + 1, !.seen = "granted"].item = Nothing
            /\ [pass[p] EXCEPT !.stage = @ + 1, !.seen = "granted"].todo = {}
        BY <1>1, <2>2 DEF PassFields
      <4>4. QED
        BY <4>1, <4>2, <4>3
    <3>2. ASSUME NEW n, NEW w \in SUBSET Pending(Stages[n]), n = pass[p].stage + 1,
                 pass' = [pass EXCEPT ![p].stage = @ + 1, ![p].todo = w, ![p].seen = "none"]
          PROVE  \E k : /\ pass' = [pass EXCEPT ![p] = k]
                        /\ DOMAIN k = PassFields /\ k.item = Nothing /\ k.todo \subseteq Pending(Stages[k.stage])
      <4> DEFINE k == [pass[p] EXCEPT !.stage = @ + 1, !.todo = w, !.seen = "none"]
      <4>1. DOMAIN k = PassFields /\ k.item = Nothing /\ k.todo = w /\ k.stage = n
        BY <1>1, <2>2, <3>2 DEF PassFields
      <4>2. pass' = [pass EXCEPT ![p] = k]
        BY <3>2
      <4> HIDE DEF k
      <4>3. QED
        BY <4>1, <4>2
    <3>3. ASSUME NEW n, NEW w \in SUBSET Pending(Stages[n]), pass[p].stage = 0,
                 pass' = [pass EXCEPT ![p].stage = n, ![p].todo = w]
          PROVE  \E k : /\ pass' = [pass EXCEPT ![p] = k]
                        /\ DOMAIN k = PassFields /\ k.item = Nothing /\ k.todo \subseteq Pending(Stages[k.stage])
      <4> DEFINE k == [pass[p] EXCEPT !.stage = n, !.todo = w]
      <4>1. DOMAIN k = PassFields /\ k.item = Nothing /\ k.todo = w /\ k.stage = n
        BY <1>1, <2>2 DEF PassFields
      <4>2. pass' = [pass EXCEPT ![p] = k]
        BY <3>3
      <4> HIDE DEF k
      <4>3. QED
        BY <4>1, <4>2
    <3>4. \/ pass' = [pass EXCEPT ![p].stage = @ + 1, ![p].seen = "granted"]
          \/ \E w \in SUBSET Pending(Stages[pass[p].stage + 1]) :
               pass' = [pass EXCEPT ![p].stage = @ + 1, ![p].todo = w, ![p].seen = "none"]
          \/ \E n, w : /\ w \in SUBSET Pending(Stages[n]) /\ pass[p].stage = 0
                       /\ pass' = [pass EXCEPT ![p].stage = n, ![p].todo = w]
      BY <1>5 DEF OpenStage, WorkLists
    <3>5. QED
      BY <3>1, <3>2, <3>3, <3>4
  <2>4. QED
    BY <1>2, <2>1, <2>3, StageBegins
<1>6. ASSUME NEW p \in Passes, Ask(p) PROVE OutFits'
  <2>1. PICK i \in pass[p].todo : pass' = [pass EXCEPT ![p].todo = @ \ {i}, ![p].item = i, ![p].seen = "none"]
    BY <1>6 DEF Ask
  <2> DEFINE k == [pass[p] EXCEPT !.todo = @ \ {i}, !.item = i, !.seen = "none"]
  <2>2. /\ DOMAIN k = PassFields /\ k.stage = pass[p].stage /\ k.todo = pass[p].todo \ {i} /\ k.item = i
    BY <1>1 DEF PassFields
  <2>3. pass' = [pass EXCEPT ![p] = k] /\ UNCHANGED <<named, links, shown, status>>
    BY <1>6, <2>1 DEF Ask, tables, desk
  <2> HIDE DEF k
  <2>4. TookFrom(k, InBase)
    BY <1>1, <2>2, Lighter
  <2>5. QED
    BY <1>2, <2>3, <2>4
\* A pass puts down what it asked about, or has seen its run.
<1>7. ASSUME NEW p \in Passes, NEW mark, NEW k,
             \/ k = [pass[p] EXCEPT !.item = Nothing, !.seen = mark]
             \/ k = [pass[p] EXCEPT !.seen = mark]
      PROVE  TookFrom(k, InBase)
  <2>1. /\ DOMAIN k = PassFields /\ k.stage = pass[p].stage /\ k.todo = pass[p].todo
        /\ k.item = Nothing \/ k.item = pass[p].item
    BY <1>1, <1>7 DEF PassFields
  <2>2. QED
    BY <1>1, <2>1, Lighter
<1>8. ASSUME NEW p \in Passes, Put(p) PROVE \E k : pass' = [pass EXCEPT ![p] = k] /\ TookFrom(k, InBase)
  <2>1. pass' = [pass EXCEPT ![p] = [pass[p] EXCEPT !.item = Nothing, !.seen = "none"]]
    BY <1>8 DEF Put
  <2>2. TookFrom([pass[p] EXCEPT !.item = Nothing, !.seen = "none"], InBase)
    BY <1>7
  <2>3. QED
    BY <2>1, <2>2
<1>9. ASSUME NEW p \in Passes, Refused(p) \/ RecordFirst(p) \/ RecordRetry(p) \/ RecordReading(p) PROVE OutFits'
  <2>1. Put(p) /\ UNCHANGED <<named, links, shown, status>>
    BY <1>9 DEF Refused, RecordFirst, RecordRetry, RecordReading, tables, desk
  <2>2. QED
    BY <1>2, <1>8, <2>1
<1>10. ASSUME NEW p \in Passes, ReadRun(p) PROVE OutFits'
  <2>1. UNCHANGED <<named, links, shown, status>>
        /\ (Put(p) \/ pass' = [pass EXCEPT ![p] = [pass[p] EXCEPT !.seen = "failed"]])
    BY <1>10 DEF ReadRun, tables, desk
  <2>2. TookFrom([pass[p] EXCEPT !.seen = "failed"], InBase)
    BY <1>7
  <2>3. QED
    BY <1>2, <1>8, <2>1, <2>2
<1>11. ASSUME NEW p \in Passes, EndRead(p) PROVE OutFits'
  <2>1. pass' = [pass EXCEPT ![p] = [pass[p] EXCEPT !.seen = "granted"]]
        /\ GrantBirth /\ UNCHANGED <<named, links, shown>>
    BY <1>11 DEF EndRead, desk
  <2>2. DOMAIN status' = Ids
        /\ \A c \in Ids : status'[c] = "operationalization" => status[c] = "operationalization"
    BY <2>1 DEF GrantBirth
  <2>3. TookFrom([pass[p] EXCEPT !.seen = "granted"], InBase)
    BY <1>7
  <2>4. DOMAIN pass' = Passes /\ \A q \in Passes : TookFrom(pass'[q], InBase')
    BY <1>0, <2>1, <2>3, PassGoesOn
  <2>5. QED
    BY <1>0, <2>1, <2>2, <2>4, TablesStay
<1>12. ASSUME NEW p \in Passes, EndPass(p) \/ KillPass(p) PROVE OutFits'
  <2>1. PICK k : /\ pass' = [pass EXCEPT ![p] = k]
                 /\ k = [Over(p) EXCEPT !.mark = "succeeded"] \/ k = [Over(p) EXCEPT !.mark = "killed"]
    BY <1>12 DEF EndPass, KillPass
  <2>2. DOMAIN k = PassFields /\ k.stage = 0
    BY <2>1 DEF Over, Asleep, PassFields
  <2>3. UNCHANGED <<named, links, shown, status>>
    BY <1>12 DEF EndPass, KillPass, tables, desk
  <2>4. QED
    BY <1>2, <2>1, <2>2, <2>3, NoStage
\* A link joins two statements of the list; a mention is read of one.
<1>13. ASSUME NEW p \in Passes, RecordLink(p) PROVE OutFits'
  <2>1. /\ Put(p) /\ UNCHANGED <<named, shown, status>>
        /\ pass[p].item # Nothing /\ pass[p].stage > 0 /\ Stages[pass[p].stage] = "link-claims"
        /\ \A l \in links' : l \in links \/ (l[1] = pass[p].item[1] /\ l[2] = pass[p].item[2])
    BY <1>13 DEF RecordLink, desk, In
  <2>2. pass[p].item[1] \in InBase /\ pass[p].item[2] \in InBase
    BY <1>1, <2>1 DEF TookFrom
  <2>3. DOMAIN pass' = Passes /\ \A q \in Passes : TookFrom(pass'[q], InBase')
    BY <1>0, <1>8, <2>1, PassGoesOn
  <2>4. QED
    BY <1>0, <2>1, <2>2, <2>3, TablesStay DEF OutFits
<1>14. ASSUME NEW p \in Passes, RecordMentions(p) PROVE OutFits'
  <2>1. /\ Put(p) /\ UNCHANGED <<links, shown, status>>
        /\ pass[p].item # Nothing /\ pass[p].stage > 0 /\ Stages[pass[p].stage] = "find-entities"
        /\ named' = named \cup {pass[p].item}
    BY <1>14 DEF RecordMentions, desk, In
  <2>2. pass[p].item \in InBase
    BY <1>1, <2>1 DEF TookFrom
  <2>3. DOMAIN pass' = Passes /\ \A q \in Passes : TookFrom(pass'[q], InBase')
    BY <1>0, <1>8, <2>1, PassGoesOn
  <2>4. QED
    BY <1>0, <2>1, <2>2, <2>3, TablesStay DEF OutFits
\* The owner's page shows admitted statements, and a verdict is on what it shows.
<1>15. CASE LoadDesk
  <2>1. UNCHANGED <<pass, named, links, status>> /\ \A i \in shown' : i[2] \in Admitted
    BY <1>15 DEF LoadDesk, tables, PromotionQueue, FreshnessQueue
  <2>2. DOMAIN pass' = Passes /\ \A q \in Passes : TookFrom(pass'[q], InBase')
    BY <1>0, <1>1, <2>1, TookStays DEF OutFits
  <2>3. QED
    BY <1>0, <2>1, <2>2, AdmittedInBase, TablesStay DEF OutFits
<1>16. CASE DecideOnDesk
  <2>1. PICK item \in shown, verdict \in {"confirmed", "rejected"} :
          /\ status' = IF item[1] = "status_promotion" /\ verdict = "confirmed"
                       THEN [status EXCEPT ![item[2]] = "operationalization"] ELSE status
          /\ shown' = shown \ {item} /\ UNCHANGED <<pass, named, links>>
    BY <1>16 DEF DecideOnDesk
  <2>2. item[2] \in InBase
    BY DEF OutFits
  <2>3. DOMAIN pass' = Passes /\ \A q \in Passes : TookFrom(pass'[q], InBase')
    BY <1>0, <1>1, <2>1, TookStays DEF OutFits
  <2>4. DOMAIN status' = Ids
        /\ \A c \in Ids : status'[c] = "operationalization" => status[c] = "operationalization" \/ c = item[2]
    BY <2>1 DEF OutFits
  <2>5. QED
    BY <1>0, <2>1, <2>2, <2>3, <2>4, TablesStay
<1>17. QED
  BY <1>3, <1>4, <1>5, <1>6, <1>9, <1>10, <1>11, <1>12, <1>13, <1>14, <1>15, <1>16
     DEF ChainNext, PassStep, chainVars, tables, desk, Embed

\* Behaviour of record_mentions, record_link and decide_promotion: a statement whose
\* reading rejected it is named by nothing, linked to nothing and never promoted,
\* however the passes overlap and whenever their work lists were taken.
THEOREM RejectedTakeNoPart == ChainSpec => []RejectedStaysOut
<1>1. ChainInit => OutFits
  <2> SUFFICES ASSUME ChainInit PROVE OutFits
    OBVIOUS
  <2>1. \A p \in Passes : pass[p] = Asleep
    BY DEF ChainInit
  <2>2. DOMAIN Asleep = PassFields /\ Asleep.stage = 0
    BY DEF Asleep, PassFields
  <2>3. \A p \in Passes : TookFrom(pass[p], InBase)
    BY <2>1, <2>2, NoStage
  <2>4. QED
    BY <2>3 DEF ChainInit, OutFits
<1>2. ReadingFits /\ OutFits => RejectedStaysOut
  <2> SUFFICES ASSUME ReadingFits, OutFits, NEW c \in Statements, reading[c] = "rejected"
               PROVE  /\ c \notin named /\ status[c] # "operationalization"
                      /\ \A d \in Statements : ~Linked(c, d) /\ ~Linked(d, c)
    BY DEF RejectedStaysOut
  <2>1. c \in Ids /\ c \notin InBase
    BY AdmittedInBase DEF InBase
  <2>2. c \notin named /\ status[c] # "operationalization"
    BY <2>1 DEF OutFits
  <2>3. ASSUME NEW d, Linked(c, d) \/ Linked(d, c) PROVE FALSE
    <3>1. PICK t : <<c, d, t>> \in links \/ <<d, c, t>> \in links
      BY <2>3 DEF Linked
    <3>2. QED
      BY <2>1, <3>1 DEF OutFits
  <2>4. QED
    BY <2>2, <2>3
<1>3. (ReadingFits /\ OutFits) /\ [ChainNext]_chainVars => (ReadingFits /\ OutFits)'
  BY ReadingStep, OutStep
<1>4. QED
  BY <1>1, <1>2, <1>3, ReadingBegins, PTL DEF ChainSpec

----------------------------------------------------------------------------
(* The turn of a reader.                                                   *)

Fields == {"step", "at", "valid", "epoch", "asOf", "moment", "charged", "base", "outcome", "cached"}

\* What a thread knows of the key was true at the time it read, or was kept from a
\* read KeptFor ago at most.
ThreadFits(k, now, since) ==
  /\ DOMAIN k = Fields
  /\ k.at \in Nat /\ k.at <= now /\ k.valid \in BOOLEAN
  /\ k.step \in {"off", "check", "reading", "over"} => k.valid = FALSE
  /\ k.step = "keeping" /\ k.valid = TRUE /\ since # Unset => k.at <= since
  /\ k.valid = TRUE /\ since # Unset => k.at < since + KeptFor

\* The key's row and the guard's entry.
KeyFits(entry, now, since) ==
  /\ now \in Nat
  /\ since # Unset => since \in Nat /\ since <= now
  /\ entry # Unset => /\ entry.at \in Nat /\ entry.at <= now /\ entry.valid \in BOOLEAN
                      /\ entry.valid = TRUE /\ since # Unset => entry.at <= since

\* A thread that was not started is off.
PageFits ==
  /\ DOMAIN reader = Readers
  /\ \A r \in Readers : /\ reader[r] = "idle" => thread[<<r, "stream">>].step = "off"
                        /\ reader[r] \in {"idle", "stream"} => thread[<<r, "json">>].step = "off"

TurnInv ==
  /\ KeyFits(guard, clock, revokedAt)
  /\ key = "active" => revokedAt = Unset
  /\ DOMAIN thread = Threads
  /\ \A t \in Threads : ThreadFits(thread[t], clock, revokedAt)
  /\ PageFits

\* The threads of a turn.
LEMMA TurnThreads ==
  /\ \A r \in Readers : <<r, "stream">> \in Threads /\ <<r, "json">> \in Threads
  /\ \A t \in Threads : t[1] \in Readers /\ t[2] \in Modes /\ t = <<t[1], t[2]>>
BY DEF Threads, Modes

\* Nobody asks at the start.
LEMMA TurnBegins == TurnInit => TurnInv
<1> SUFFICES ASSUME TurnInit PROVE TurnInv
  OBVIOUS
<1>1. clock = 0 /\ guard = Unset /\ (revokedAt = Unset \/ revokedAt = 0) /\ (key = "active" => revokedAt = Unset)
  BY DEF TurnInit
<1>2. \A t \in Threads : thread[t] = Idle
  BY DEF TurnInit
<1>3. ThreadFits(Idle, clock, revokedAt) /\ Idle.step = "off"
  BY <1>1, TurnAssumption DEF ThreadFits, Idle, Fields
<1>4. KeyFits(guard, clock, revokedAt)
  BY <1>1 DEF KeyFits
<1>5. PageFits
  BY <1>2, <1>3, TurnThreads DEF TurnInit, PageFits
<1>6. QED
  BY <1>1, <1>2, <1>3, <1>4, <1>5 DEF TurnInv, TurnInit

\* Threads stay as they are while time passes and the key changes.
LEMMA OthersMove ==
  ASSUME TurnInv, UNCHANGED <<guard, thread, reader>>,
         clock' \in Nat, clock <= clock',
         key' = "active" => revokedAt' = Unset,
         revokedAt' \in {revokedAt, Unset, clock}
  PROVE  TurnInv'
<1>0. clock \in Nat /\ KeptFor \in Nat \ {0} /\ (revokedAt # Unset => revokedAt \in Nat)
  BY TurnAssumption DEF TurnInv, KeyFits
<1>1. KeyFits(guard', clock', revokedAt')
  BY <1>0 DEF TurnInv, KeyFits
<1>2. ASSUME NEW t \in Threads PROVE ThreadFits(thread'[t], clock', revokedAt')
  BY <1>0 DEF TurnInv, ThreadFits
<1>3. PageFits'
  BY DEF TurnInv, PageFits
<1>4. QED
  BY <1>1, <1>2, <1>3 DEF TurnInv

\* A thread that was started makes a step.
LEMMA ThreadMoves ==
  ASSUME TurnInv, NEW t \in Threads, NEW k, thread' = [thread EXCEPT ![t] = k],
         thread[t].step # "off", UNCHANGED <<clock, key, revokedAt, reader>>,
         ThreadFits(k, clock, revokedAt),
         guard' = guard \/ KeyFits(guard', clock, revokedAt)
  PROVE  TurnInv'
<1>1. KeyFits(guard', clock', revokedAt') /\ (key' = "active" => revokedAt' = Unset)
  BY DEF TurnInv
<1>2. DOMAIN thread' = Threads /\ \A u \in Threads : thread'[u] = IF u = t THEN k ELSE thread[u]
  BY DEF TurnInv
<1>3. \A u \in Threads : ThreadFits(thread'[u], clock', revokedAt')
  BY <1>2 DEF TurnInv
<1>4. PageFits'
  BY <1>2, TurnThreads DEF TurnInv, PageFits
<1>5. QED
  BY <1>1, <1>2, <1>3, <1>4 DEF TurnInv

\* A step either keeps what a thread's record says of the key or drops it.
Keeps(k, j) == k.valid = j.valid /\ k.at = j.at
Drops(k) == k.valid = FALSE /\ k.at = 0

\* Every step of a thread keeps it.
LEMMA ServeStep ==
  ASSUME TurnInv, NEW t \in Threads, Serve(t)
  PROVE  TurnInv'
<1> DEFINE k0 == thread[t]
<1>0. /\ ThreadFits(k0, clock, revokedAt) /\ KeyFits(guard, clock, revokedAt)
      /\ key = "active" => revokedAt = Unset
      /\ KeptFor \in Nat \ {0} /\ Unset \notin Nat /\ DOMAIN thread = Threads
  BY TurnAssumption DEF TurnInv
<1>1. CASE CheckKey(t)
  <2>0. k0.step = "check" /\ k0.valid = FALSE /\ UNCHANGED <<clock, key, revokedAt, reader, guard>>
    BY <1>0, <1>1 DEF CheckKey, ThreadFits, keyVars, page
  <2>1. CASE guard # Unset /\ clock - guard.at < KeptFor
    <3> DEFINE k == [k0 EXCEPT !.step = "context", !.at = clock, !.valid = guard.valid]
    <3>1. thread' = [thread EXCEPT ![t] = k]
      BY <1>1, <2>1 DEF CheckKey
    <3>2. DOMAIN k = Fields /\ k.step = "context" /\ k.at = clock /\ k.valid = guard.valid
      BY <1>0 DEF ThreadFits, Fields
    <3>3. guard.valid = TRUE /\ revokedAt # Unset => clock < revokedAt + KeptFor
      BY <1>0, <2>1 DEF KeyFits
    <3> HIDE DEF k
    <3>4. ThreadFits(k, clock, revokedAt)
      BY <1>0, <2>1, <3>2, <3>3 DEF ThreadFits, KeyFits
    <3>5. QED
      BY <2>0, <3>1, <3>4, ThreadMoves
  <2>2. CASE ~(guard # Unset /\ clock - guard.at < KeptFor)
    <3> DEFINE k == [k0 EXCEPT !.step = "reading", !.at = clock]
    <3>1. thread' = [thread EXCEPT ![t] = k]
      BY <1>1, <2>2 DEF CheckKey
    <3>2. DOMAIN k = Fields /\ k.step = "reading" /\ k.at = clock /\ k.valid = FALSE
      BY <1>0, <2>0 DEF ThreadFits, Fields
    <3> HIDE DEF k
    <3>3. k.valid \in BOOLEAN
      BY <3>2, Zenon
    <3>4. ThreadFits(k, clock, revokedAt)
      BY <1>0, <3>2, <3>3 DEF ThreadFits, KeyFits
    <3>5. QED
      BY <2>0, <3>1, <3>4, ThreadMoves
  <2>3. QED
    BY <2>1, <2>2
<1>2. CASE ReadKey(t)
  <2> DEFINE k == [k0 EXCEPT !.step = "keeping", !.valid = (key = "active")]
  <2>1. /\ thread' = [thread EXCEPT ![t] = k] /\ k0.step = "reading"
        /\ UNCHANGED <<clock, key, revokedAt, reader, guard>>
    BY <1>2 DEF ReadKey, keyVars, page
  <2>2. DOMAIN k = Fields /\ k.step = "keeping" /\ k.at = k0.at /\ k.valid = (key = "active")
    BY <1>0 DEF ThreadFits, Fields
  <2> HIDE DEF k
  <2>3. k.valid \in BOOLEAN /\ (k.valid = TRUE => revokedAt = Unset)
    BY <1>0, <2>2
  <2>4. ThreadFits(k, clock, revokedAt)
    BY <1>0, <2>2, <2>3 DEF ThreadFits
  <2>5. QED
    BY <2>1, <2>4, ThreadMoves
<1>3. CASE KeepKey(t)
  <2> DEFINE k == [k0 EXCEPT !.step = "context"]
  <2>1. /\ thread' = [thread EXCEPT ![t] = k] /\ k0.step = "keeping"
        /\ UNCHANGED <<clock, key, revokedAt, reader>> /\ guard' = [valid |-> k0.valid, at |-> k0.at]
    BY <1>3 DEF KeepKey, keyVars, page, To, Entry
  <2>2. DOMAIN k = Fields /\ k.step = "context" /\ k.at = k0.at /\ k.valid = k0.valid
    BY <1>0 DEF ThreadFits, Fields
  <2>3. guard'.at = k0.at /\ guard'.valid = k0.valid
    BY <2>1
  <2> HIDE DEF k
  <2>4. KeyFits(guard', clock, revokedAt)
    BY <1>0, <2>1, <2>3 DEF KeyFits, ThreadFits
  <2>5. ThreadFits(k, clock, revokedAt)
    BY <1>0, <2>2 DEF ThreadFits
  <2>6. QED
    BY <2>1, <2>4, <2>5, ThreadMoves
\* The other steps keep what the thread knows of the key, or drop it.
<1>4. ASSUME NEW k, thread' = [thread EXCEPT ![t] = k], UNCHANGED <<clock, key, revokedAt, reader, guard>>,
             DOMAIN k = Fields, Keeps(k, k0) \/ Drops(k),
             k.step \in {"moment", "charge", "search", "record", "reply", "over"},
             k0.step # "off", k.step = "over" => k.valid = FALSE
      PROVE  TurnInv'
  <2>1. ThreadFits(k, clock, revokedAt)
    <3>0. k0.valid \in BOOLEAN /\ FALSE \in BOOLEAN /\ (k.valid = k0.valid \/ k.valid = FALSE)
      BY <1>0, <1>4, Zenon DEF ThreadFits, Keeps, Drops
    <3>1. k.valid \in BOOLEAN /\ k.at \in Nat /\ k.at <= clock
      <4>1. k.valid \in BOOLEAN
        BY <3>0, Zenon
      <4>2. QED
        BY <1>0, <1>4, <4>1 DEF ThreadFits, KeyFits, Keeps, Drops
    <3>2. QED
      BY <1>0, <1>4, <3>1 DEF ThreadFits, Keeps, Drops
  <2>2. QED
    BY <1>4, <2>1, ThreadMoves
<1>5. CASE Lookup(t)
  <2>1. UNCHANGED <<clock, key, revokedAt, reader, guard>> /\ k0.step = "context"
    <3>1. [k0 EXCEPT !.asOf = revision, !.epoch = clock \div EpochLength].step = k0.step
      BY <1>0 DEF ThreadFits, Fields
    <3>2. QED
      BY <1>5, <3>1 DEF Lookup, keyVars, page
  <2>2. ASSUME NEW a, thread' = [thread EXCEPT ![t] =
                 [[k0 EXCEPT !.asOf = revision, !.epoch = clock \div EpochLength]
                    EXCEPT !.step = "reply", !.outcome = a.kind, !.base = a.base, !.cached = TRUE]]
        PROVE  TurnInv'
    <3> DEFINE k == [[k0 EXCEPT !.asOf = revision, !.epoch = clock \div EpochLength]
                    EXCEPT !.step = "reply", !.outcome = a.kind, !.base = a.base, !.cached = TRUE]
    <3>1. DOMAIN k = Fields /\ k.step = "reply" /\ Keeps(k, k0)
      BY <1>0 DEF ThreadFits, Fields, Keeps, Drops
    <3>2. thread' = [thread EXCEPT ![t] = k]
      BY <2>2
    <3> HIDE DEF k
    <3>3. QED
      BY <1>4, <2>1, <3>1, <3>2, Zenon
  <2>3. ASSUME thread' = [thread EXCEPT ![t] =
                 [[k0 EXCEPT !.asOf = revision, !.epoch = clock \div EpochLength] EXCEPT !.step = "moment"]]
        PROVE  TurnInv'
    <3> DEFINE k == [[k0 EXCEPT !.asOf = revision, !.epoch = clock \div EpochLength] EXCEPT !.step = "moment"]
    <3>1. DOMAIN k = Fields /\ k.step = "moment" /\ Keeps(k, k0)
      BY <1>0 DEF ThreadFits, Fields, Keeps, Drops
    <3>2. thread' = [thread EXCEPT ![t] = k]
      BY <2>3
    <3> HIDE DEF k
    <3>3. QED
      BY <1>4, <2>1, <3>1, <3>2, Zenon
  <2>4. QED
    BY <1>5, <2>2, <2>3 DEF Lookup
<1>6. CASE ReadMoment(t)
  <2> DEFINE k == [k0 EXCEPT !.step = "charge", !.moment = clock]
  <2>1. /\ thread' = [thread EXCEPT ![t] = k] /\ k0.step = "moment"
        /\ UNCHANGED <<clock, key, revokedAt, reader, guard>>
    BY <1>6 DEF ReadMoment, keyVars, page
  <2>2. DOMAIN k = Fields /\ k.step = "charge" /\ Keeps(k, k0)
    BY <1>0 DEF ThreadFits, Fields, Keeps, Drops
  <2> HIDE DEF k
  <2>3. QED
    BY <1>4, <2>1, <2>2, Zenon
<1>7. CASE Charge(t)
  <2>1. k0.step = "charge" /\ UNCHANGED <<clock, key, revokedAt, reader, guard>>
    BY <1>7 DEF Charge, keyVars, page
  <2>2. ASSUME thread' = [thread EXCEPT ![t] = [k0 EXCEPT !.step = "reply", !.outcome = "limited"]]
        PROVE  TurnInv'
    <3> DEFINE k == [k0 EXCEPT !.step = "reply", !.outcome = "limited"]
    <3>1. DOMAIN k = Fields /\ k.step = "reply" /\ Keeps(k, k0)
      BY <1>0 DEF ThreadFits, Fields, Keeps, Drops
    <3>2. thread' = [thread EXCEPT ![t] = k]
      BY <2>2
    <3> HIDE DEF k
    <3>3. QED
      BY <1>4, <2>1, <3>1, <3>2, Zenon
  <2>3. ASSUME thread' = [thread EXCEPT ![t] = [k0 EXCEPT !.step = "search", !.charged = TRUE,
                               !.at = 0, !.valid = FALSE, !.moment = 0]]
        PROVE  TurnInv'
    <3> DEFINE k == [k0 EXCEPT !.step = "search", !.charged = TRUE, !.at = 0, !.valid = FALSE, !.moment = 0]
    <3>1. DOMAIN k = Fields /\ k.step = "search" /\ Drops(k)
      BY <1>0 DEF ThreadFits, Fields, Keeps, Drops
    <3>2. thread' = [thread EXCEPT ![t] = k]
      BY <2>3
    <3> HIDE DEF k
    <3>3. QED
      BY <1>4, <2>1, <3>1, <3>2, Zenon
  <2>4. \/ thread' = [thread EXCEPT ![t].step = "reply", ![t].outcome = "limited"]
        \/ thread' = [thread EXCEPT ![t] = [@ EXCEPT !.step = "search", !.charged = TRUE,
                               !.at = 0, !.valid = FALSE, !.moment = 0]]
    BY <1>7 DEF Charge
  <2>5. QED
    BY <2>2, <2>3, <2>4
<1>8. CASE Search(t)
  <2>1. PICK kind \in {"answer", "refusal", "error"} :
          thread' = [thread EXCEPT ![t] = [@ EXCEPT !.base = revision, !.outcome = kind,
                          !.step = IF kind = "error" THEN "reply" ELSE "record"]]
    BY <1>8 DEF Search
  <2> DEFINE k == [k0 EXCEPT !.base = revision, !.outcome = kind,
                          !.step = IF kind = "error" THEN "reply" ELSE "record"]
  <2>2. /\ thread' = [thread EXCEPT ![t] = k] /\ k0.step = "search"
        /\ UNCHANGED <<clock, key, revokedAt, reader, guard>>
    BY <1>8, <2>1 DEF Search, keyVars, page
  <2>3. DOMAIN k = Fields /\ k.step \in {"reply", "record"} /\ Keeps(k, k0)
    BY <1>0 DEF ThreadFits, Fields, Keeps, Drops
  <2> HIDE DEF k
  <2>4. QED
    BY <1>4, <2>2, <2>3, Zenon
<1>9. CASE RecordRow(t)
  <2> DEFINE k == [k0 EXCEPT !.step = "reply"]
  <2>1. /\ thread' = [thread EXCEPT ![t] = k] /\ k0.step = "record"
        /\ UNCHANGED <<clock, key, revokedAt, reader, guard>>
    BY <1>9 DEF RecordRow, keyVars, page, To
  <2>2. DOMAIN k = Fields /\ k.step = "reply" /\ Keeps(k, k0)
    BY <1>0 DEF ThreadFits, Fields, Keeps, Drops
  <2> HIDE DEF k
  <2>3. QED
    BY <1>4, <2>1, <2>2, Zenon
<1>E. Ended.step = "over" /\ Ended.valid = FALSE /\ Ended.at = 0 /\ DOMAIN Ended = Fields
  BY DEF Ended, Idle, Fields
<1>10. CASE WriteFails(t)
  <2>1. /\ thread' = [thread EXCEPT ![t] = Ended] /\ k0.step # "off"
        /\ UNCHANGED <<clock, key, revokedAt, reader, guard>>
    BY <1>10 DEF WriteFails, keyVars, page
  <2>2. Drops(Ended)
    BY <1>E DEF Drops
  <2>3. QED
    BY <1>4, <1>E, <2>1, <2>2, Zenon
<1>11. CASE Reply(t)
  <2>1. /\ k0.step = "reply" /\ UNCHANGED <<clock, key, revokedAt, guard>>
    BY <1>11 DEF Reply, keyVars
  <2>E. ThreadFits(Ended, clock, revokedAt)
    <3>1. Ended.valid \in BOOLEAN
      BY <1>E, Zenon
    <3>2. QED
      BY <1>0, <1>E, <3>1 DEF ThreadFits, KeyFits
  <2>2. CASE thread' = [thread EXCEPT ![t] = Ended] /\ reader' = reader
    BY <2>1, <2>2, <2>E, ThreadMoves
  <2>3. CASE /\ thread' = [thread EXCEPT ![t] = Ended]
             /\ \E place \in {"done", "failed"} : reader' = [reader EXCEPT ![t[1]] = place]
    <3>1. DOMAIN thread' = Threads /\ \A u \in Threads : thread'[u] = IF u = t THEN Ended ELSE thread[u]
      BY <2>3 DEF TurnInv
    <3>2. PageFits'
      BY <2>1, <2>3, <3>1, TurnThreads DEF TurnInv, PageFits
    <3>3. \A u \in Threads : ThreadFits(thread'[u], clock', revokedAt')
      BY <2>1, <2>E, <3>1 DEF TurnInv
    <3>4. QED
      BY <2>1, <3>1, <3>2, <3>3 DEF TurnInv
  <2>4. CASE /\ t[2] = "stream" /\ reader[t[1]] = "stream"
             /\ reader' = [reader EXCEPT ![t[1]] = "json"]
             /\ thread' = [thread EXCEPT ![t] = Ended, ![<<t[1], "json">>].step = "check"]
    <3> DEFINE j == <<t[1], "json">>
               k == [thread[j] EXCEPT !.step = "check"]
    <3>1. j \in Threads /\ j # t
      BY <2>4, TurnThreads
    <3>2. thread[j].step = "off" /\ ThreadFits(thread[j], clock, revokedAt)
      BY <2>4, <3>1, TurnThreads DEF TurnInv, PageFits
    <3>3. DOMAIN k = Fields /\ k.step = "check" /\ k.valid = FALSE /\ k.at = thread[j].at
      BY <3>2 DEF ThreadFits, Fields
    <3>4. DOMAIN thread' = Threads
          /\ \A u \in Threads : thread'[u] = IF u = t THEN Ended ELSE IF u = j THEN k ELSE thread[u]
      BY <1>0, <2>4, <3>1
    <3> HIDE DEF k
    <3>5. ThreadFits(k, clock, revokedAt)
      BY <3>2, <3>3 DEF ThreadFits
    <3>6. \A u \in Threads : ThreadFits(thread'[u], clock', revokedAt')
      BY <2>1, <2>E, <3>4, <3>5 DEF TurnInv
    <3>7. PageFits'
      BY <2>1, <2>4, <3>1, <3>4, TurnThreads DEF TurnInv, PageFits
    <3>8. QED
      BY <2>1, <3>4, <3>6, <3>7 DEF TurnInv
  <2>5. QED
    BY <1>11, <2>2, <2>3, <2>4 DEF Reply, FallBack, page
<1>12. QED
  BY <1>1, <1>2, <1>3, <1>5, <1>6, <1>7, <1>8, <1>9, <1>10, <1>11 DEF Serve

\* A thread is started.
LEMMA ThreadStarts ==
  ASSUME TurnInv, NEW t \in Threads, thread[t].step = "off", thread' = [thread EXCEPT ![t].step = "check"],
         UNCHANGED <<clock, key, revokedAt, guard>>,
         NEW place \in {"stream", "json"}, reader' = [reader EXCEPT ![t[1]] = place], t[2] = place,
         place = "json" => reader[t[1]] = "stream", place = "stream" => reader[t[1]] = "idle"
  PROVE  TurnInv'
<1> DEFINE k == [thread[t] EXCEPT !.step = "check"]
<1>1. ThreadFits(thread[t], clock, revokedAt) /\ DOMAIN thread = Threads
  BY DEF TurnInv
<1>2. DOMAIN k = Fields /\ k.step = "check" /\ k.valid = FALSE /\ k.at = thread[t].at
  BY <1>1 DEF ThreadFits, Fields
<1>3. DOMAIN thread' = Threads /\ \A u \in Threads : thread'[u] = IF u = t THEN k ELSE thread[u]
  BY <1>1
<1> HIDE DEF k
<1>4. ThreadFits(k, clock, revokedAt)
  BY <1>1, <1>2 DEF ThreadFits
<1>5. \A u \in Threads : ThreadFits(thread'[u], clock', revokedAt')
  BY <1>3, <1>4 DEF TurnInv
<1>6. PageFits'
  <2>1. DOMAIN reader' = Readers /\ \A r \in Readers : reader'[r] = IF r = t[1] THEN place ELSE reader[r]
    BY DEF TurnInv, PageFits
  <2>2. QED
    BY <1>3, <2>1, TurnThreads DEF TurnInv, PageFits
<1>7. QED
  BY <1>3, <1>5, <1>6 DEF TurnInv

\* Every step of the turns keeps it.
LEMMA TurnInvStep == TurnInv /\ [TurnNext]_turnVars => TurnInv'
<1> SUFFICES ASSUME TurnInv, [TurnNext]_turnVars PROVE TurnInv'
  OBVIOUS
<1>0. clock \in Nat /\ (key = "active" => revokedAt = Unset)
  BY DEF TurnInv, KeyFits
<1>1. CASE UNCHANGED turnVars
  BY <1>0, <1>1, OthersMove DEF turnVars, keyVars, page
<1>2. CASE Tick \/ ChainPasses \/ Revoke \/ Extend
  <2>1. UNCHANGED <<guard, thread, reader>>
    BY <1>2 DEF Tick, ChainPasses, Revoke, Extend, page
  <2>2. clock' = clock \/ clock' = clock + 1
    BY <1>2 DEF Tick, ChainPasses, Revoke, Extend
  <2>3. clock' \in Nat /\ clock <= clock'
    BY <1>0, <2>2
  <2>4. revokedAt' \in {revokedAt, Unset, clock} /\ (key' = "active" => revokedAt' = Unset)
    BY <1>0, <1>2 DEF Tick, ChainPasses, Revoke, Extend, keyVars
  <2>5. QED
    BY <2>1, <2>3, <2>4, OthersMove
<1>3. CASE \E t \in Threads : Serve(t)
  BY <1>3, ServeStep
<1>4. ASSUME NEW r \in Readers, AskQuestion(r) PROVE TurnInv'
  <2> DEFINE t == <<r, "stream">>
  <2>1. t \in Threads /\ t[1] = r /\ t[2] = "stream"
    BY TurnThreads
  <2>2. thread[t].step = "off" /\ reader[r] = "idle"
    BY <1>4 DEF AskQuestion, TurnInv, PageFits
  <2>3. /\ thread' = [thread EXCEPT ![t].step = "check"] /\ reader' = [reader EXCEPT ![r] = "stream"]
        /\ UNCHANGED <<clock, key, revokedAt, guard>>
    BY <1>4 DEF AskQuestion, To, keyVars
  <2> HIDE DEF t
  <2>4. QED
    BY <2>1, <2>2, <2>3, ThreadStarts
<1>5. ASSUME NEW r \in Readers, Breaks(r) PROVE TurnInv'
  <2> DEFINE t == <<r, "json">>
  <2>1. t \in Threads /\ t[1] = r /\ t[2] = "json"
    BY TurnThreads
  <2>2. thread[t].step = "off" /\ reader[r] = "stream"
    BY <1>5 DEF Breaks, TurnInv, PageFits
  <2>3. /\ thread' = [thread EXCEPT ![t].step = "check"] /\ reader' = [reader EXCEPT ![r] = "json"]
        /\ UNCHANGED <<clock, key, revokedAt, guard>>
    BY <1>5 DEF Breaks, FallBack, keyVars
  <2> HIDE DEF t
  <2>4. QED
    BY <2>1, <2>2, <2>3, ThreadStarts
<1>6. ASSUME NEW r \in Readers, Stop(r) PROVE TurnInv'
  <2>1. UNCHANGED <<clock, key, revokedAt, guard, thread>> /\ reader' = [reader EXCEPT ![r] = "stopped"]
    BY <1>6 DEF Stop, keyVars
  <2>2. PageFits'
    BY <2>1 DEF TurnInv, PageFits
  <2>3. QED
    BY <2>1, <2>2 DEF TurnInv
<1>7. QED
  BY <1>1, <1>2, <1>3, <1>4, <1>5, <1>6 DEF TurnNext

\* Behaviour of AccessGuard.check: whatever threads read, keep and serve at the same
\* time, no request that came KeptFor after a revocation is served as a subscriber's.
THEOREM RevocationsLand == TurnSpec => []RevocationLands
<1>1. TurnInv => RevocationLands
  BY DEF TurnInv, ThreadFits, RevocationLands
<1>2. QED
  BY <1>1, TurnBegins, TurnInvStep, PTL DEF TurnSpec

\* The threads are records and what is told is kept.
AnswersFit ==
  /\ DOMAIN thread = Threads
  /\ \A t \in Threads : DOMAIN thread[t] = Fields
  /\ AnswerIsKept

\* Rows are only added.
LEMMA RowsStay ==
  ASSUME NEW k, answers \subseteq answers'
  PROVE  \A a \in Under(k) : a \in Under(k)'
BY DEF Under

\* One thread's step.
LEMMA AnswersStep ==
  ASSUME AnswersFit, answers \subseteq answers', NEW t \in Threads, NEW k,
         thread' = [thread EXCEPT ![t] = k], DOMAIN k = Fields,
         k.step = "reply" /\ k.outcome = "answer" =>
            \E a \in answers' : a.epoch = k.epoch /\ a.asOf = k.asOf /\ a.kind = "answer"
  PROVE  AnswersFit'
<1>1. DOMAIN thread' = Threads /\ \A u \in Threads : thread'[u] = IF u = t THEN k ELSE thread[u]
  BY DEF AnswersFit
<1>2. ASSUME NEW u \in Threads, thread'[u].step = "reply", thread'[u].outcome = "answer"
      PROVE  \E a \in answers' : a.epoch = thread'[u].epoch /\ a.asOf = thread'[u].asOf /\ a.kind = "answer"
  BY <1>1, <1>2 DEF AnswersFit, AnswerIsKept, Under
<1>3. AnswerIsKept'
  BY <1>2 DEF AnswerIsKept, Under
<1>4. QED
  BY <1>1, <1>3 DEF AnswersFit

\* Behaviour of record_answer: an answer that is told is kept, whatever refusals other
\* turns recorded for the same question.
THEOREM ToldAnswersAreKept == TurnSpec => []AnswerIsKept
<1>1. TurnInit => AnswersFit
  BY DEF TurnInit, AnswersFit, AnswerIsKept, Idle, Fields
<1>2. AnswersFit /\ [TurnNext]_turnVars => AnswersFit'
  <2> SUFFICES ASSUME AnswersFit, [TurnNext]_turnVars PROVE AnswersFit'
    OBVIOUS
  <2>0. DOMAIN thread = Threads /\ \A t \in Threads : DOMAIN thread[t] = Fields
    BY DEF AnswersFit
  <2>1. CASE UNCHANGED <<thread, answers>>
    BY <2>1 DEF AnswersFit, AnswerIsKept, Under
  <2>2. ASSUME NEW t \in Threads, Serve(t) PROVE AnswersFit'
    <3> DEFINE k0 == thread[t]
    <3>0. DOMAIN k0 = Fields
      BY <2>0
    \* The thread goes on without an answer.
    <3>1. ASSUME NEW k, UNCHANGED answers, thread' = [thread EXCEPT ![t] = k], DOMAIN k = Fields,
                 k.step # "reply" \/ k.outcome # "answer"
          PROVE  AnswersFit'
      BY <3>1, AnswersStep
    <3>2. CASE CheckKey(t)
      <4>1. CASE guard # Unset /\ clock - guard.at < KeptFor
        <5> DEFINE k == [k0 EXCEPT !.step = "context", !.at = clock, !.valid = guard.valid]
        <5>1. thread' = [thread EXCEPT ![t] = k] /\ UNCHANGED answers
          BY <3>2, <4>1 DEF CheckKey
        <5>2. DOMAIN k = Fields /\ k.step = "context"
          BY <3>0 DEF Fields
        <5> HIDE DEF k
        <5>3. QED
          BY <3>1, <5>1, <5>2
      <4>2. CASE ~(guard # Unset /\ clock - guard.at < KeptFor)
        <5> DEFINE k == [k0 EXCEPT !.step = "reading", !.at = clock]
        <5>1. thread' = [thread EXCEPT ![t] = k] /\ UNCHANGED answers
          BY <3>2, <4>2 DEF CheckKey
        <5>2. DOMAIN k = Fields /\ k.step = "reading"
          BY <3>0 DEF Fields
        <5> HIDE DEF k
        <5>3. QED
          BY <3>1, <5>1, <5>2
      <4>3. QED
        BY <4>1, <4>2
    <3>3. CASE ReadKey(t)
      <4> DEFINE k == [k0 EXCEPT !.step = "keeping", !.valid = (key = "active")]
      <4>1. thread' = [thread EXCEPT ![t] = k] /\ UNCHANGED answers
        BY <3>3 DEF ReadKey
      <4>2. DOMAIN k = Fields /\ k.step = "keeping"
        BY <3>0 DEF Fields
      <4> HIDE DEF k
      <4>3. QED
        BY <3>1, <4>1, <4>2
    <3>4. CASE KeepKey(t)
      <4> DEFINE k == [k0 EXCEPT !.step = "context"]
      <4>1. thread' = [thread EXCEPT ![t] = k] /\ UNCHANGED answers
        BY <3>4 DEF KeepKey, To
      <4>2. DOMAIN k = Fields /\ k.step = "context"
        BY <3>0 DEF Fields
      <4> HIDE DEF k
      <4>3. QED
        BY <3>1, <4>1, <4>2
    <3>5. CASE Lookup(t)
      <4> DEFINE k1 == [k0 EXCEPT !.asOf = revision, !.epoch = clock \div EpochLength]
      <4>0. UNCHANGED answers /\ DOMAIN k1 = Fields
        BY <3>0, <3>5 DEF Lookup
      <4>1. ASSUME NEW a \in Served(Under(k1)),
                   thread' = [thread EXCEPT ![t] = [k1 EXCEPT !.step = "reply", !.outcome = a.kind,
                                                              !.base = a.base, !.cached = TRUE]]
            PROVE  AnswersFit'
        <5> DEFINE k == [k1 EXCEPT !.step = "reply", !.outcome = a.kind, !.base = a.base, !.cached = TRUE]
        <5>1. a \in answers /\ a.epoch = k1.epoch /\ a.asOf = k1.asOf /\ a.kind = "answer"
          BY DEF Served, Under
        <5> HIDE DEF k1
        <5>2. DOMAIN k = Fields /\ k.epoch = k1.epoch /\ k.asOf = k1.asOf
          BY <4>0 DEF Fields
        <5>3. thread' = [thread EXCEPT ![t] = k]
          BY <4>1
        <5> HIDE DEF k
        <5>4. \E b \in answers' : b.epoch = k.epoch /\ b.asOf = k.asOf /\ b.kind = "answer"
          BY <4>0, <5>1, <5>2
        <5>5. QED
          BY <4>0, <5>2, <5>3, <5>4, AnswersStep
      <4>2. ASSUME thread' = [thread EXCEPT ![t] = [k1 EXCEPT !.step = "moment"]] PROVE AnswersFit'
        <5> DEFINE k == [k1 EXCEPT !.step = "moment"]
        <5> HIDE DEF k1
        <5>1. thread' = [thread EXCEPT ![t] = k]
          BY <4>2
        <5>2. DOMAIN k = Fields /\ k.step = "moment"
          BY <4>0 DEF Fields
        <5> HIDE DEF k
        <5>3. QED
          BY <3>1, <4>0, <5>1, <5>2
      <4>3. QED
        BY <3>5, <4>1, <4>2 DEF Lookup
    <3>6. CASE ReadMoment(t)
      <4> DEFINE k == [k0 EXCEPT !.step = "charge", !.moment = clock]
      <4>1. thread' = [thread EXCEPT ![t] = k] /\ UNCHANGED answers
        BY <3>6 DEF ReadMoment
      <4>2. DOMAIN k = Fields /\ k.step = "charge"
        BY <3>0 DEF Fields
      <4> HIDE DEF k
      <4>3. QED
        BY <3>1, <4>1, <4>2
    <3>7. CASE Charge(t)
      <4>0. UNCHANGED answers
        BY <3>7 DEF Charge
      <4>1. CASE thread' = [thread EXCEPT ![t].step = "reply", ![t].outcome = "limited"]
        <5> DEFINE k == [k0 EXCEPT !.step = "reply", !.outcome = "limited"]
        <5>1. thread' = [thread EXCEPT ![t] = k]
          BY <4>1
        <5>2. DOMAIN k = Fields /\ k.outcome = "limited"
          BY <3>0 DEF Fields
        <5> HIDE DEF k
        <5>3. QED
          BY <3>1, <4>0, <5>1, <5>2
      <4>2. CASE thread' = [thread EXCEPT ![t] = [@ EXCEPT !.step = "search", !.charged = TRUE,
                                 !.at = 0, !.valid = FALSE, !.moment = 0]]
        <5> DEFINE k == [k0 EXCEPT !.step = "search", !.charged = TRUE, !.at = 0, !.valid = FALSE, !.moment = 0]
        <5>1. thread' = [thread EXCEPT ![t] = k]
          BY <4>2
        <5>2. DOMAIN k = Fields /\ k.step = "search"
          BY <3>0 DEF Fields
        <5> HIDE DEF k
        <5>3. QED
          BY <3>1, <4>0, <5>1, <5>2
      <4>3. QED
        BY <3>7, <4>1, <4>2 DEF Charge
    <3>8. CASE Search(t)
      <4>0. UNCHANGED answers
        BY <3>8 DEF Search
      <4>1. PICK kind \in {"answer", "refusal", "error"} :
              thread' = [thread EXCEPT ![t] = [@ EXCEPT !.base = revision, !.outcome = kind,
                              !.step = IF kind = "error" THEN "reply" ELSE "record"]]
        BY <3>8 DEF Search
      <4> DEFINE k == [k0 EXCEPT !.base = revision, !.outcome = kind,
                              !.step = IF kind = "error" THEN "reply" ELSE "record"]
      <4>2. thread' = [thread EXCEPT ![t] = k]
        BY <4>1
      <4>3. DOMAIN k = Fields /\ k.outcome = kind /\ (k.step = "reply" => kind = "error")
        BY <3>0 DEF Fields
      <4> HIDE DEF k
      <4>4. QED
        BY <3>1, <4>0, <4>2, <4>3
    <3>9. CASE RecordRow(t)
      <4> DEFINE k == [k0 EXCEPT !.step = "reply"]
                 row == Row(k0)
      <4>1. /\ thread' = [thread EXCEPT ![t] = k]
            /\ answers' = IF Clashes(row) THEN answers ELSE answers \cup {row}
        BY <3>9 DEF RecordRow, To
      <4>2. DOMAIN k = Fields /\ k.epoch = k0.epoch /\ k.asOf = k0.asOf /\ k.outcome = k0.outcome
        BY <3>0 DEF Fields
      <4>3. row.kind = k0.outcome /\ row.epoch = k0.epoch /\ row.asOf = k0.asOf
        BY DEF Row
      <4> HIDE DEF k, row, k0
      <4>4. \E a \in answers' : a.epoch = k.epoch /\ a.asOf = k.asOf /\ a.kind = k.outcome
        BY <4>1, <4>2, <4>3 DEF Clashes, Under
      <4>5. answers \subseteq answers'
        BY <4>1
      <4>6. QED
        BY <4>1, <4>2, <4>4, <4>5, AnswersStep
    <3>E. DOMAIN Ended = Fields /\ Ended.step = "over"
      BY DEF Ended, Idle, Fields
    <3>10. CASE WriteFails(t)
      <4>1. thread' = [thread EXCEPT ![t] = Ended] /\ UNCHANGED answers
        BY <3>10 DEF WriteFails
      <4>2. QED
        BY <3>1, <3>E, <4>1
    <3>11. CASE Reply(t)
      <4>0. UNCHANGED answers
        BY <3>11 DEF Reply
      <4>1. CASE thread' = [thread EXCEPT ![t] = Ended]
        BY <3>1, <3>E, <4>0, <4>1
      <4>2. CASE t[2] = "stream" /\ thread' = [thread EXCEPT ![t] = Ended, ![<<t[1], "json">>].step = "check"]
        <5> DEFINE j == <<t[1], "json">>
                   k == [thread[j] EXCEPT !.step = "check"]
        <5>1. j \in Threads /\ j # t
          BY <4>2, TurnThreads
        <5>2. DOMAIN thread' = Threads
              /\ \A u \in Threads : thread'[u] = IF u = t THEN Ended ELSE IF u = j THEN k ELSE thread[u]
          BY <2>0, <4>2, <5>1
        <5>3. DOMAIN k = Fields /\ k.step = "check"
          BY <2>0, <5>1 DEF Fields
        <5> HIDE DEF k
        <5>4. \A u \in Threads : /\ DOMAIN thread'[u] = Fields
                                 /\ thread'[u].step = "reply" => thread'[u] = thread[u]
          BY <2>0, <3>E, <5>2, <5>3
        <5>5. AnswerIsKept'
          BY <4>0, <5>4 DEF AnswersFit, AnswerIsKept, Under
        <5>6. QED
          BY <5>2, <5>4, <5>5 DEF AnswersFit
      <4>3. QED
        BY <3>11, <4>1, <4>2 DEF Reply
    <3>12. QED
      BY <2>2, <3>2, <3>3, <3>4, <3>5, <3>6, <3>7, <3>8, <3>9, <3>10, <3>11 DEF Serve
  <2>3. ASSUME NEW t \in Threads, thread' = [thread EXCEPT ![t].step = "check"], UNCHANGED answers
        PROVE  AnswersFit'
    <3> DEFINE k == [thread[t] EXCEPT !.step = "check"]
    <3>1. thread' = [thread EXCEPT ![t] = k]
      BY <2>3
    <3>2. DOMAIN k = Fields /\ k.step = "check"
      BY <2>0 DEF Fields
    <3> HIDE DEF k
    <3>3. QED
      BY <2>3, <3>1, <3>2, AnswersStep
  <2>4. ASSUME NEW r \in Readers, AskQuestion(r) \/ Breaks(r) PROVE AnswersFit'
    <3>1. PICK t \in {<<r, "stream">>, <<r, "json">>} : thread' = [thread EXCEPT ![t].step = "check"]
      BY <2>4 DEF AskQuestion, Breaks, To
    <3>2. t \in Threads /\ UNCHANGED answers
      BY <2>4, TurnThreads DEF AskQuestion, Breaks
    <3>3. QED
      BY <2>3, <3>1, <3>2
  <2>5. QED
    BY <2>1, <2>2, <2>4 DEF TurnNext, turnVars, Tick, ChainPasses, Revoke, Extend, Stop
<1>3. AnswersFit => AnswerIsKept
  BY DEF AnswersFit
<1>4. QED
  BY <1>1, <1>2, <1>3, PTL DEF TurnSpec

\* What a thread found was searched, and was not older than its question.
Searched(k, now) ==
  /\ DOMAIN k = Fields
  /\ k.asOf \in Nat /\ k.asOf <= now /\ k.base \in Nat
  /\ k.step \in {"off", "check", "reading", "keeping", "context"} => k.cached = FALSE
  /\ k.step \in {"off", "check", "reading", "keeping", "context", "moment", "charge"}
       => k.outcome # "refusal"
  /\ k.step = "search" \/ k.outcome = "refusal" => k.charged = TRUE
  /\ k.step = "record" \/ k.cached = TRUE => k.asOf <= k.base

RowsAreFresh(rows) == \A a \in rows : a.asOf \in Nat /\ a.base \in Nat /\ a.asOf <= a.base

SearchInv ==
  /\ revision \in Nat /\ DOMAIN thread = Threads
  /\ \A t \in Threads : Searched(thread[t], revision)
  /\ RowsAreFresh(answers)

\* One thread's step.
LEMMA SearchedMoves ==
  ASSUME SearchInv, NEW t \in Threads, NEW k, thread' = [thread EXCEPT ![t] = k],
         Searched(k, revision), revision' = revision, RowsAreFresh(answers')
  PROVE  SearchInv'
<1>1. DOMAIN thread' = Threads /\ \A u \in Threads : thread'[u] = IF u = t THEN k ELSE thread[u]
  BY DEF SearchInv
<1>2. QED
  BY <1>1 DEF SearchInv

\* What a thread is left with when its turn is over.
LEMMA EndedSearched == ASSUME revision \in Nat PROVE Searched(Ended, revision)
<1>1. /\ DOMAIN Ended = Fields /\ Ended.step = "over" /\ Ended.asOf = 0 /\ Ended.base = 0
      /\ Ended.cached = FALSE /\ Ended.outcome = "none"
  BY DEF Ended, Idle, Fields
<1>2. QED
  BY <1>1 DEF Searched

\* Every step of the turns keeps it.
LEMMA SearchStep == TurnInv /\ SearchInv /\ [TurnNext]_turnVars => SearchInv'
<1> SUFFICES ASSUME TurnInv, SearchInv, [TurnNext]_turnVars PROVE SearchInv'
  OBVIOUS
<1>0. revision \in Nat /\ DOMAIN thread = Threads /\ RowsAreFresh(answers)
      /\ \A t \in Threads : Searched(thread[t], revision)
  BY DEF SearchInv
<1>1. CASE UNCHANGED <<revision, thread, answers>>
  BY <1>1 DEF SearchInv
<1>2. CASE ChainPasses
  <2>1. revision' = revision + 1 /\ UNCHANGED <<thread, answers>>
    BY <1>2 DEF ChainPasses
  <2>2. \A t \in Threads : Searched(thread[t], revision + 1)
    BY <1>0 DEF Searched
  <2>3. QED
    BY <1>0, <2>1, <2>2 DEF SearchInv
\* A thread moves on and nothing is recorded.
<1>3. ASSUME NEW t \in Threads, NEW k, thread' = [thread EXCEPT ![t] = k],
             Searched(k, revision), UNCHANGED <<revision, answers>>
      PROVE  SearchInv'
  BY <1>0, <1>3, SearchedMoves
<1>4. ASSUME NEW t \in Threads, CheckKey(t) PROVE SearchInv'
  <2>1. PICK k : /\ thread' = [thread EXCEPT ![t] = k]
                 /\ \/ k = [thread[t] EXCEPT !.step = "context", !.at = clock, !.valid = guard.valid]
                    \/ k = [thread[t] EXCEPT !.step = "reading", !.at = clock]
    BY <1>4 DEF CheckKey
  <2>2. thread[t].step = "check" /\ UNCHANGED <<revision, answers>>
    BY <1>4 DEF CheckKey
  <2>3. /\ DOMAIN k = Fields /\ k.step \in {"context", "reading"} /\ k.asOf = thread[t].asOf
        /\ k.base = thread[t].base /\ k.cached = thread[t].cached /\ k.outcome = thread[t].outcome
        /\ k.charged = thread[t].charged
    BY <1>0, <2>1 DEF Searched, Fields
  <2>4. Searched(k, revision)
    BY <1>0, <2>2, <2>3 DEF Searched
  <2>5. QED
    BY <1>3, <2>1, <2>2, <2>4
<1>5. ASSUME NEW t \in Threads, ReadKey(t) \/ KeepKey(t) PROVE SearchInv'
  <2>1. PICK k : /\ thread' = [thread EXCEPT ![t] = k]
                 /\ \/ k = [thread[t] EXCEPT !.step = "keeping", !.valid = (key = "active")]
                    \/ k = [thread[t] EXCEPT !.step = "context"]
    BY <1>5 DEF ReadKey, KeepKey, To
  <2>2. thread[t].step \in {"reading", "keeping"} /\ UNCHANGED <<revision, answers>>
    BY <1>5 DEF ReadKey, KeepKey
  <2>3. /\ DOMAIN k = Fields /\ k.step \in {"keeping", "context"} /\ k.asOf = thread[t].asOf
        /\ k.base = thread[t].base /\ k.cached = thread[t].cached /\ k.outcome = thread[t].outcome
        /\ k.charged = thread[t].charged
    BY <1>0, <2>1 DEF Searched, Fields
  <2>4. Searched(k, revision)
    BY <1>0, <2>2, <2>3 DEF Searched
  <2>5. QED
    BY <1>3, <2>1, <2>2, <2>4
<1>6. ASSUME NEW t \in Threads, Lookup(t) PROVE SearchInv'
  <2> DEFINE q == [thread[t] EXCEPT !.asOf = revision, !.epoch = clock \div EpochLength]
  <2>1. /\ DOMAIN q = Fields /\ q.asOf = revision /\ q.step = thread[t].step /\ q.base = thread[t].base
        /\ q.cached = thread[t].cached /\ q.outcome = thread[t].outcome /\ q.charged = thread[t].charged
    BY <1>0 DEF Searched, Fields
  <2>2. /\ q.step = "context" /\ UNCHANGED <<revision, answers>>
        /\ \/ \E a \in Served(Under(q)) : thread' = [thread EXCEPT ![t] =
                    [q EXCEPT !.step = "reply", !.outcome = a.kind, !.base = a.base, !.cached = TRUE]]
           \/ thread' = [thread EXCEPT ![t] = [q EXCEPT !.step = "moment"]]
    BY <1>6 DEF Lookup
  <2> HIDE DEF q
  <2>3. ASSUME NEW a \in Served(Under(q)), thread' = [thread EXCEPT ![t] =
                    [q EXCEPT !.step = "reply", !.outcome = a.kind, !.base = a.base, !.cached = TRUE]]
        PROVE  SearchInv'
    <3> DEFINE k == [q EXCEPT !.step = "reply", !.outcome = a.kind, !.base = a.base, !.cached = TRUE]
    <3>1. a \in answers /\ a.asOf = revision /\ a.kind = "answer"
      BY <2>1 DEF Served, Under
    <3>2. /\ DOMAIN k = Fields /\ k.step = "reply" /\ k.outcome = "answer" /\ k.base = a.base
          /\ k.asOf = revision
      BY <2>1, <3>1 DEF Fields
    <3>3. thread' = [thread EXCEPT ![t] = k]
      BY <2>3
    <3> HIDE DEF k
    <3>4. Searched(k, revision)
      BY <1>0, <3>1, <3>2 DEF Searched, RowsAreFresh
    <3>5. QED
      BY <1>3, <2>2, <3>3, <3>4
  <2>4. ASSUME thread' = [thread EXCEPT ![t] = [q EXCEPT !.step = "moment"]] PROVE SearchInv'
    <3> DEFINE k == [q EXCEPT !.step = "moment"]
    <3>1. /\ DOMAIN k = Fields /\ k.step = "moment" /\ k.outcome = q.outcome /\ k.base = q.base
          /\ k.asOf = revision /\ k.cached = q.cached /\ k.charged = q.charged
      BY <2>1 DEF Fields
    <3>2. thread' = [thread EXCEPT ![t] = k]
      BY <2>4
    <3> HIDE DEF k
    <3>3. thread[t].cached = FALSE /\ thread[t].outcome # "refusal" /\ thread[t].base \in Nat
      BY <1>0, <2>1, <2>2 DEF Searched
    <3>4. k.cached = FALSE /\ k.outcome # "refusal" /\ k.base \in Nat
      BY <2>1, <3>1, <3>3, Zenon
    <3>5. k.cached # TRUE
      BY <3>4
    <3>6. Searched(k, revision)
      BY <1>0, <3>1, <3>4, <3>5 DEF Searched
    <3>7. QED
      BY <1>3, <2>2, <3>2, <3>6
  <2>5. QED
    BY <2>2, <2>3, <2>4
<1>7. ASSUME NEW t \in Threads, ReadMoment(t) \/ Charge(t) PROVE SearchInv'
  <2>1. PICK k : /\ thread' = [thread EXCEPT ![t] = k]
                 /\ \/ k = [thread[t] EXCEPT !.step = "charge", !.moment = clock]
                    \/ k = [thread[t] EXCEPT !.step = "reply", !.outcome = "limited"]
                    \/ k = [thread[t] EXCEPT !.step = "search", !.charged = TRUE,
                                             !.at = 0, !.valid = FALSE, !.moment = 0]
    <3>1. CASE ReadMoment(t)
      <4>1. thread' = [thread EXCEPT ![t] = [thread[t] EXCEPT !.step = "charge", !.moment = clock]]
        BY <3>1 DEF ReadMoment
      <4>2. QED
        BY <4>1
    <3>2. CASE Charge(t)
      <4>1. \/ thread' = [thread EXCEPT ![t] = [thread[t] EXCEPT !.step = "reply", !.outcome = "limited"]]
            \/ thread' = [thread EXCEPT ![t] = [thread[t] EXCEPT !.step = "search", !.charged = TRUE,
                                                       !.at = 0, !.valid = FALSE, !.moment = 0]]
        BY <3>2 DEF Charge
      <4>2. QED
        BY <4>1
    <3>3. QED
      BY <1>7, <3>1, <3>2
  <2>2. thread[t].step \in {"moment", "charge"} /\ UNCHANGED <<revision, answers>>
    BY <1>7 DEF ReadMoment, Charge
  <2>3. /\ DOMAIN k = Fields /\ k.asOf = thread[t].asOf /\ k.base = thread[t].base
        /\ k.cached = thread[t].cached
        /\ k.step \in {"charge", "reply", "search"} /\ k.outcome \in {thread[t].outcome, "limited"}
        /\ k.step = "search" => k.charged = TRUE
    BY <1>0, <2>1 DEF Searched, Fields
  <2>4. Searched(k, revision)
    BY <1>0, <2>2, <2>3 DEF Searched
  <2>5. QED
    BY <1>3, <2>1, <2>2, <2>4
<1>8. ASSUME NEW t \in Threads, Search(t) PROVE SearchInv'
  <2>1. PICK k : /\ thread' = [thread EXCEPT ![t] = k]
                 /\ \E kind \in {"answer", "refusal", "error"} :
                      k = [thread[t] EXCEPT !.base = revision, !.outcome = kind,
                             !.step = IF kind = "error" THEN "reply" ELSE "record"]
    BY <1>8 DEF Search
  <2>2. thread[t].step = "search" /\ UNCHANGED <<revision, answers>>
    BY <1>8 DEF Search
  <2>3. /\ DOMAIN k = Fields /\ k.asOf = thread[t].asOf /\ k.base = revision
        /\ k.charged = thread[t].charged /\ k.step \in {"reply", "record"}
    BY <1>0, <2>1 DEF Searched, Fields
  <2>4. Searched(k, revision)
    BY <1>0, <2>2, <2>3 DEF Searched
  <2>5. QED
    BY <1>3, <2>1, <2>2, <2>4
<1>9. ASSUME NEW t \in Threads, RecordRow(t) PROVE SearchInv'
  <2>1. PICK k : thread' = [thread EXCEPT ![t] = k] /\ k = [thread[t] EXCEPT !.step = "reply"]
    BY <1>9 DEF RecordRow, To
  <2>2. thread[t].step = "record" /\ revision' = revision /\ answers' \subseteq answers \cup {Row(thread[t])}
    BY <1>9 DEF RecordRow
  <2>3. /\ DOMAIN k = Fields /\ k.asOf = thread[t].asOf /\ k.base = thread[t].base
        /\ k.charged = thread[t].charged /\ k.step = "reply" /\ k.outcome = thread[t].outcome
    BY <1>0, <2>1 DEF Searched, Fields
  <2>4. Searched(k, revision)
    BY <1>0, <2>2, <2>3 DEF Searched
  <2>5. RowsAreFresh(answers')
    BY <1>0, <2>2 DEF RowsAreFresh, Row, Searched
  <2>6. QED
    BY <2>1, <2>2, <2>4, <2>5, SearchedMoves
\* A thread ends, and the page may start the other one.
<1>10. ASSUME NEW t \in Threads, thread' = [thread EXCEPT ![t] = Ended], UNCHANGED <<revision, answers>>
       PROVE  SearchInv'
  BY <1>0, <1>3, <1>10, EndedSearched
<1>11. ASSUME NEW j \in Threads, thread[j].step = "off"
       PROVE  Searched([thread[j] EXCEPT !.step = "check"], revision)
  <2> DEFINE k == [thread[j] EXCEPT !.step = "check"]
  <2>1. /\ DOMAIN k = Fields /\ k.step = "check" /\ k.asOf = thread[j].asOf
        /\ k.base = thread[j].base /\ k.cached = thread[j].cached /\ k.outcome = thread[j].outcome
        /\ k.charged = thread[j].charged
    BY <1>0 DEF Searched, Fields
  <2> HIDE DEF k
  <2>2. Searched(k, revision)
    BY <1>0, <1>11, <2>1 DEF Searched
  <2>3. QED
    BY <2>2 DEF k
<1>12. ASSUME NEW t \in Threads, WriteFails(t) PROVE SearchInv'
  BY <1>10, <1>12 DEF WriteFails
<1>13. ASSUME NEW t \in Threads, Reply(t) PROVE SearchInv'
  <2>1. UNCHANGED <<revision, answers>>
    BY <1>13 DEF Reply
  <2>2. CASE thread' = [thread EXCEPT ![t] = Ended]
    BY <1>10, <2>1, <2>2
  <2>3. CASE /\ t[2] = "stream" /\ reader[t[1]] = "stream"
             /\ thread' = [thread EXCEPT ![t] = Ended, ![<<t[1], "json">>].step = "check"]
    <3> DEFINE j == <<t[1], "json">>
               k == [thread[j] EXCEPT !.step = "check"]
    <3>1. j \in Threads /\ j # t
      BY <2>3, TurnThreads
    <3>2. thread[j].step = "off"
      BY <2>3, <3>1, TurnThreads DEF TurnInv, PageFits
    <3>3. Searched(k, revision)
      BY <1>11, <3>1, <3>2
    <3>4. DOMAIN thread' = Threads
          /\ \A u \in Threads : thread'[u] = IF u = t THEN Ended ELSE IF u = j THEN k ELSE thread[u]
      BY <1>0, <2>3, <3>1
    <3> HIDE DEF k
    <3>5. QED
      BY <1>0, <2>1, <3>3, <3>4, EndedSearched DEF SearchInv
  <2>4. QED
    BY <1>13, <2>2, <2>3 DEF Reply
<1>14. ASSUME NEW r \in Readers, AskQuestion(r) \/ Breaks(r) PROVE SearchInv'
  <2>1. PICK j \in Threads : thread[j].step = "off" /\ thread' = [thread EXCEPT ![j].step = "check"]
    BY <1>14, TurnThreads DEF AskQuestion, Breaks, To, TurnInv, PageFits
  <2>2. UNCHANGED <<revision, answers>>
    BY <1>14 DEF AskQuestion, Breaks
  <2>3. Searched([thread[j] EXCEPT !.step = "check"], revision)
    BY <1>11, <2>1
  <2>4. thread' = [thread EXCEPT ![j] = [thread[j] EXCEPT !.step = "check"]]
    BY <2>1
  <2>5. QED
    BY <1>3, <2>2, <2>3, <2>4
<1>15. QED
  BY <1>1, <1>2, <1>4, <1>5, <1>6, <1>7, <1>8, <1>9, <1>12, <1>13, <1>14
     DEF TurnNext, Serve, turnVars, Tick, Revoke, Extend, Stop

\* Nobody asked at the start.
LEMMA SearchBegins == TurnInit => SearchInv
<1> SUFFICES ASSUME TurnInit PROVE SearchInv
  OBVIOUS
<1>1. \A t \in Threads : thread[t] = Idle
  BY DEF TurnInit
<1>2. /\ DOMAIN Idle = Fields /\ Idle.step = "off" /\ Idle.asOf = 0 /\ Idle.base = 0
      /\ Idle.cached = FALSE /\ Idle.outcome = "none"
  BY DEF Idle, Fields
<1>3. Searched(Idle, 0)
  BY <1>2 DEF Searched
<1>4. QED
  BY <1>1, <1>3 DEF TurnInit, SearchInv, RowsAreFresh

\* Behaviour of agent_api.py _draft_flow: an answer from the cache rests on the base the
\* question was asked of or on a later one, whatever passed between the retrieval and
\* the recording of it.
THEOREM CachedAnswersAreFresh == TurnSpec => []FreshFromCache
<1>1. SearchInv => FreshFromCache
  <2> SUFFICES ASSUME SearchInv, NEW t \in Threads, thread[t].cached PROVE thread[t].base >= thread[t].asOf
    BY DEF FreshFromCache
  <2>1. Searched(thread[t], revision)
    BY DEF SearchInv
  <2>2. thread[t].cached # FALSE
    BY Zenon
  <2>3. thread[t].base \in Nat /\ thread[t].asOf \in Nat /\ thread[t].asOf <= thread[t].base
    BY <2>1, <2>2 DEF Searched
  <2>4. QED
    BY <2>3
<1>2. TurnInv /\ SearchInv /\ [TurnNext]_turnVars => (TurnInv /\ SearchInv)'
  BY TurnInvStep, SearchStep
<1>3. QED
  BY <1>1, <1>2, TurnBegins, SearchBegins, PTL DEF TurnSpec

\* Behaviour of agent_api.py _draft_flow: a refusal is never replayed; who is told that
\* the base holds nothing had it searched.
THEOREM RefusalsAreSearched == TurnSpec => []RefusalWasSearched
<1>1. SearchInv => RefusalWasSearched
  <2> SUFFICES ASSUME SearchInv, NEW t \in Threads, thread[t].outcome = "refusal" PROVE thread[t].charged
    BY DEF RefusalWasSearched
  <2>1. thread[t].charged = TRUE
    BY DEF SearchInv, Searched
  <2>2. QED
    BY <2>1, Zenon
<1>2. TurnInv /\ SearchInv /\ [TurnNext]_turnVars => (TurnInv /\ SearchInv)'
  BY TurnInvStep, SearchStep
<1>3. QED
  BY <1>1, <1>2, TurnBegins, SearchBegins, PTL DEF TurnSpec
=============================================================================
