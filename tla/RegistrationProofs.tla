------------------------- MODULE RegistrationProofs -------------------------
(* Theorems about registration, for any number of requests and invites.    *)
EXTENDS Registration, TLAPS

LEMMA TypeHandle ==
  ASSUME TypeOK, NEW r \in Requests, Handle(r)
  PROVE  TypeOK'
<1>1. mishaps' \in [Requests -> SUBSET MishapKinds]
  BY DEF Handle, Claim, Refuse, Create, Release, Record, IssueToken, Befalls,
         MishapKinds, TypeOK
<1>2. ask[r].invite \in Invites
  BY DEF TypeOK
<1>3. CASE Claim(r)
  <2>1. claimed' \subseteq stored
    BY <1>3 DEF Claim, Claimable, TypeOK
  <2>2. QED
    BY <1>1, <1>3, <2>1 DEF Claim, Finish, GoOn, TypeOK, Reply
<1>4. CASE Refuse(r)
  BY <1>1, <1>4 DEF Refuse, Finish, TypeOK, Reply
<1>5. CASE Create(r)
  <2>1. accounts' \subseteq Requests /\ accounts \subseteq accounts'
    BY <1>5 DEF Create, TypeOK
  <2>2. QED
    BY <1>1, <1>5, <2>1 DEF Create, TypeOK, Reply
<1>6. CASE Release(r)
  <2>1. claimed' \subseteq claimed
    BY <1>6 DEF Release
  <2>2. QED
    BY <1>1, <1>6, <2>1 DEF Release, GoOn, TypeOK
<1>7. CASE Record(r)
  <2>1. usedBy' \in [Invites -> Requests \cup {Nobody}]
    BY <1>2, <1>7 DEF Record, TypeOK
  <2>2. QED
    BY <1>1, <1>7, <2>1 DEF Record, GoOn, TypeOK
<1>8. CASE IssueToken(r)
  <2>1. granted' \subseteq accounts
    BY <1>8 DEF IssueToken, TypeOK
  <2>2. QED
    BY <1>1, <1>8, <2>1 DEF IssueToken, Finish, TypeOK, Reply
<1>9. QED
  BY <1>3, <1>4, <1>5, <1>6, <1>7, <1>8 DEF Handle

(* The tables keep their references: what is claimed is stored, what has a *)
(* token is an account (the schema of invites, users and api_tokens).      *)
THEOREM TypeCorrect == Spec => []TypeOK
<1>1. Init => TypeOK
  BY DEF Init, TypeOK, Reply
<1>2. TypeOK /\ [Next]_vars => TypeOK'
  <2> SUFFICES ASSUME TypeOK, [Next]_vars PROVE TypeOK'
    OBVIOUS
  <2>1. ASSUME NEW i \in Invites, CreateInvite(i) \/ Revoke(i) \/ Expire(i)
        PROVE  TypeOK'
    BY <2>1 DEF CreateInvite, Revoke, Expire, TypeOK
  <2>2. ASSUME NEW r \in Requests, Begin(r) PROVE TypeOK'
    BY <2>2 DEF Begin, GoOn, TypeOK
  <2>3. ASSUME NEW r \in Requests, Handle(r) PROVE TypeOK'
    BY <2>3, TypeHandle
  <2>4. CASE Reset
    BY <2>4 DEF Reset, TypeOK
  <2>5. CASE Crash
    BY <2>5 DEF Crash, TypeOK, Reply, MishapKinds
  <2>6. CASE UNCHANGED vars
    BY <2>6 DEF vars, TypeOK
  <2>7. QED
    BY <2>1, <2>2, <2>3, <2>4, <2>5, <2>6 DEF Next
<1>3. QED
  BY <1>1, <1>2, PTL DEF Spec

-----------------------------------------------------------------------------
(* One account per invite.  A request holds its invite from its claim      *)
(* until it gives it back, and for good once it has an account it knows    *)
(* of.  The invite of a holder is claimed, or no longer a row at all, so   *)
(* that nobody else can claim it; and it has one holder.                   *)

Sure(r) == r \in accounts /\ "unsure" \notin mishaps[r]
Holds(r) == Sure(r) \/ pc[r] \in {"create", "release", "record", "token"}

HeldInv ==
    /\ \A r \in Requests : Holds(r) =>
         ask[r].invite \in issued /\ (ask[r].invite \in claimed \/ ask[r].invite \notin stored)
    /\ \A r, s \in Requests :
         Holds(r) /\ Holds(s) /\ ask[r].invite = ask[s].invite => r = s
    /\ \A r \in Requests : pc[r] \in {"new", "claim", "create", "release"} => ~Sure(r)

LEMMA HeldHandle ==
  ASSUME TypeOK, HeldInv, NEW r \in Requests, Handle(r)
  PROVE  HeldInv'
<1>1. /\ ask' = ask /\ issued' = issued /\ stored' = stored
      /\ \A s \in Requests \ {r} : /\ pc'[s] = pc[s]
                                   /\ mishaps'[s] = mishaps[s]
                                   /\ s \in accounts' <=> s \in accounts
  BY DEF Handle, Claim, Refuse, Create, Release, Record, IssueToken, Finish, GoOn,
         Befalls, TypeOK
<1>2. \A s \in Requests \ {r} : (Holds(s)' <=> Holds(s)) /\ (Sure(s)' <=> Sure(s))
  BY <1>1 DEF Holds, Sure
<1>3. ~Create(r) => (Sure(r)' <=> Sure(r))
  BY DEF Handle, Claim, Refuse, Release, Record, IssueToken, Befalls, Sure, TypeOK
<1>4. CASE Claim(r) /\ Claimable(r)
  <2>1. /\ claimed \subseteq claimed' /\ pc[r] = "claim"
        /\ pc'[r] = "done" \/ (pc'[r] = "create" /\ ask[r].invite \in claimed')
    BY <1>4 DEF Claim, Carried, Finish, GoOn, TypeOK
  <2>2. ask[r].invite \in stored \ claimed /\ ask[r].invite \in issued
    BY <1>4 DEF Claimable, TypeOK
  <2>3. \A s \in Requests \ {r} : Holds(s) => ask[s].invite # ask[r].invite
    BY <2>2 DEF HeldInv
  <2>4. ~Sure(r)'
    BY <1>3, <1>4, <2>1 DEF HeldInv, Claim, Create
  <2>5. QED
    BY <1>1, <1>2, <2>1, <2>2, <2>3, <2>4 DEF HeldInv, Holds, Sure
<1>5. CASE (Claim(r) /\ ~Claimable(r)) \/ Refuse(r)
  <2>1. /\ claimed' = claimed /\ pc'[r] \in {"refuse", "done"}
        /\ pc[r] \in {"claim", "refuse"}
    BY <1>5 DEF Claim, Refuse, GoOn, Finish, TypeOK
  <2>2. Sure(r)' <=> Sure(r)
    BY <1>3, <2>1 DEF Create
  <2>3. QED
    BY <1>1, <1>2, <2>1, <2>2 DEF HeldInv, Holds, Sure
<1>6. CASE Create(r)
  <2>1. PICK a \in AnswerInRequest :
          /\ accounts' = IF ~Taken(r) /\ Carried(a) THEN accounts \cup {r} ELSE accounts
          /\ pc' = [pc EXCEPT ![r] = IF a = "done" /\ ~Taken(r) THEN "record"
                                     ELSE "release"]
          /\ IF ~Taken(r) /\ a = "lost" THEN Befalls(r, "unsure") ELSE UNCHANGED mishaps
    BY <1>6 DEF Create
  <2>2. pc[r] = "create" /\ claimed' = claimed /\ pc'[r] \in {"record", "release"}
    BY <1>6, <2>1 DEF Create, TypeOK
  <2>3. ~Sure(r)
    BY <2>2 DEF HeldInv
  <2>4. CASE a = "done" /\ ~Taken(r)
    <3>1. pc'[r] = "record"
      BY <2>1, <2>4 DEF TypeOK
    <3>2. QED
      BY <1>1, <1>2, <2>2, <3>1 DEF HeldInv, Holds, Sure
  <2>5. CASE ~Taken(r) /\ a = "lost"
    <3>1. "unsure" \in mishaps'[r]
      BY <2>1, <2>5 DEF Befalls, TypeOK
    <3>2. ~Sure(r)'
      BY <3>1 DEF Sure
    <3>3. QED
      BY <1>1, <1>2, <2>2, <3>2 DEF HeldInv, Holds, Sure
  <2>6. CASE ~(a = "done" /\ ~Taken(r)) /\ ~(~Taken(r) /\ a = "lost")
    <3>1. accounts' = accounts /\ mishaps' = mishaps
      BY <2>1, <2>6 DEF Carried
    <3>2. ~Sure(r)'
      BY <2>3, <3>1 DEF Sure
    <3>3. QED
      BY <1>1, <1>2, <2>2, <3>2 DEF HeldInv, Holds, Sure
  <2>7. QED
    BY <2>4, <2>5, <2>6
<1>7. CASE Release(r)
  <2>1. /\ claimed \ {ask[r].invite} \subseteq claimed'
        /\ pc[r] = "release" /\ pc'[r] = "done"
    BY <1>7 DEF Release, GoOn, TypeOK
  <2>2. \A s \in Requests \ {r} : Holds(s) => ask[s].invite # ask[r].invite
    BY <2>1 DEF HeldInv, Holds, Sure
  <2>3. ~Sure(r)'
    BY <1>3, <2>1 DEF HeldInv, Create
  <2>4. QED
    BY <1>1, <1>2, <2>1, <2>2, <2>3 DEF HeldInv, Holds, Sure
<1>8. CASE Record(r) \/ IssueToken(r)
  <2>1. /\ claimed' = claimed
        /\ pc[r] \in {"record", "token"} /\ pc'[r] \in {"token", "done"}
    BY <1>8 DEF Record, IssueToken, GoOn, Finish, TypeOK
  <2>2. QED
    BY <1>1, <1>2, <2>1 DEF HeldInv, Holds, Sure
<1>9. QED
  BY <1>4, <1>5, <1>6, <1>7, <1>8 DEF Handle

LEMMA HeldHolds == Spec => []HeldInv
<1>1. Init => HeldInv
  BY DEF Init, HeldInv, Holds, Sure
<1>2. TypeOK /\ HeldInv /\ [Next]_vars => HeldInv'
  <2> SUFFICES ASSUME TypeOK, HeldInv, [Next]_vars PROVE HeldInv'
    OBVIOUS
  <2>1. ASSUME NEW i \in Invites, CreateInvite(i) PROVE HeldInv'
    BY <2>1 DEF CreateInvite, HeldInv, Holds, Sure
  <2>2. ASSUME NEW i \in Invites, Revoke(i) \/ Expire(i) PROVE HeldInv'
    BY <2>2 DEF Revoke, Expire, HeldInv, Holds, Sure
  <2>3. ASSUME NEW r \in Requests, Begin(r) PROVE HeldInv'
    BY <2>3 DEF Begin, GoOn, HeldInv, Holds, Sure, TypeOK
  <2>4. ASSUME NEW r \in Requests, Handle(r) PROVE HeldInv'
    BY <2>4, HeldHandle
  <2>5. CASE Reset
    BY <2>5 DEF Reset, HeldInv, Holds, Sure
  <2>6. CASE Crash
    BY <2>6 DEF Crash, HeldInv, Holds, Sure, TypeOK
  <2>7. CASE UNCHANGED vars
    BY <2>7 DEF vars, HeldInv, Holds, Sure
  <2>8. QED
    BY <2>1, <2>2, <2>3, <2>4, <2>5, <2>6, <2>7 DEF Next
<1>3. QED
  BY <1>1, <1>2, TypeCorrect, PTL DEF Spec

(* No two accounts come from one invite (ClaimInvite and ReleaseInvite     *)
(* with nothing around them), whatever fails, but for those whose creation *)
(* register never heard of.                                                *)
THEOREM InvitesMakeOneAccount == Spec => []OneAccountPerInvite
<1>1. TypeOK /\ HeldInv => OneAccountPerInvite
  BY DEF TypeOK, HeldInv, Holds, Sure, OneAccountPerInvite
<1>2. QED
  BY <1>1, TypeCorrect, HeldHolds, PTL

-----------------------------------------------------------------------------
(* Revocation, whatever fails.  Accounts may now outlive their claim, but  *)
(* a registration between its claim and its answer still has its invite to *)
(* itself, and that is what keeps the operator from revoking it.           *)

Busy(r) == pc[r] \in {"create", "release", "record", "token"}

BusyInv ==
    /\ \A r \in Requests : Busy(r) =>
         ask[r].invite \in issued /\ (ask[r].invite \in claimed \/ ask[r].invite \notin stored)
    /\ \A r, s \in Requests :
         Busy(r) /\ Busy(s) /\ ask[r].invite = ask[s].invite => r = s
    /\ \A r \in Requests : pc[r] = "create" => ask[r].invite \notin revoked
    /\ stored \cap revoked = {}

LEMMA BusyHandle ==
  ASSUME TypeOK, BusyInv, NEW r \in Requests, Handle(r)
  PROVE  BusyInv'
<1>1. /\ ask' = ask /\ issued' = issued /\ stored' = stored /\ revoked' = revoked
      /\ \A s \in Requests \ {r} : pc'[s] = pc[s]
  BY DEF Handle, Claim, Refuse, Create, Release, Record, IssueToken, Finish, GoOn, TypeOK
<1>2. \A s \in Requests \ {r} : Busy(s)' <=> Busy(s)
  BY <1>1 DEF Busy
<1>3. CASE Claim(r)
  <2>1. \/ claimed' = claimed /\ pc'[r] \in {"refuse", "done"}
        \/ Claimable(r) /\ claimed' = claimed \cup {ask[r].invite} /\ pc'[r] \in {"create", "done"}
    BY <1>3 DEF Claim, Carried, Finish, GoOn, TypeOK
  <2>2. CASE claimed' = claimed /\ pc'[r] \in {"refuse", "done"}
    BY <1>1, <1>2, <2>2 DEF BusyInv, Busy
  <2>3. CASE Claimable(r) /\ claimed' = claimed \cup {ask[r].invite} /\ pc'[r] \in {"create", "done"}
    <3>1. /\ ask[r].invite \in stored \ claimed /\ ask[r].invite \in issued
          /\ ask[r].invite \notin revoked
      BY <2>3 DEF Claimable, TypeOK, BusyInv
    <3>2. \A s \in Requests \ {r} : Busy(s) => ask[s].invite # ask[r].invite
      BY <3>1 DEF BusyInv
    <3>3. QED
      BY <1>1, <1>2, <2>3, <3>1, <3>2 DEF BusyInv, Busy
  <2>4. QED
    BY <2>1, <2>2, <2>3
<1>4. CASE Refuse(r)
  BY <1>1, <1>2, <1>4 DEF Refuse, Finish, BusyInv, Busy, TypeOK
<1>5. CASE Release(r)
  <2>1. /\ claimed \ {ask[r].invite} \subseteq claimed'
        /\ pc[r] = "release" /\ pc'[r] = "done"
    BY <1>5 DEF Release, GoOn, TypeOK
  <2>2. \A s \in Requests \ {r} : Busy(s) => ask[s].invite # ask[r].invite
    BY <2>1 DEF BusyInv, Busy
  <2>3. QED
    BY <1>1, <1>2, <2>1, <2>2 DEF BusyInv, Busy
<1>6. CASE Create(r) \/ Record(r) \/ IssueToken(r)
  <2>1. /\ claimed' = claimed
        /\ pc[r] \in {"create", "record", "token"}
        /\ pc'[r] \in {"record", "release", "token", "done"}
    BY <1>6 DEF Create, Record, IssueToken, GoOn, Finish, TypeOK
  <2>2. QED
    BY <1>1, <1>2, <2>1 DEF BusyInv, Busy
<1>7. QED
  BY <1>3, <1>4, <1>5, <1>6 DEF Handle

LEMMA BusyHolds == Spec => []BusyInv
<1>1. Init => BusyInv
  BY DEF Init, BusyInv, Busy
<1>2. TypeOK /\ BusyInv /\ [Next]_vars => BusyInv'
  <2> SUFFICES ASSUME TypeOK, BusyInv, [Next]_vars PROVE BusyInv'
    OBVIOUS
  <2>1. ASSUME NEW i \in Invites, CreateInvite(i) PROVE BusyInv'
    BY <2>1 DEF CreateInvite, BusyInv, Busy, TypeOK
  <2>2. ASSUME NEW i \in Invites, Revoke(i) \/ Expire(i) PROVE BusyInv'
    BY <2>2 DEF Revoke, Expire, BusyInv, Busy
  <2>3. ASSUME NEW r \in Requests, Begin(r) PROVE BusyInv'
    BY <2>3 DEF Begin, GoOn, BusyInv, Busy, TypeOK
  <2>4. ASSUME NEW r \in Requests, Handle(r) PROVE BusyInv'
    BY <2>4, BusyHandle
  <2>5. CASE Reset
    BY <2>5 DEF Reset, BusyInv, Busy
  <2>6. CASE Crash
    BY <2>6 DEF Crash, BusyInv, Busy, TypeOK
  <2>7. CASE UNCHANGED vars
    BY <2>7 DEF vars, BusyInv, Busy
  <2>8. QED
    BY <2>1, <2>2, <2>3, <2>4, <2>5, <2>6, <2>7 DEF Next
<1>3. QED
  BY <1>1, <1>2, TypeCorrect, PTL DEF Spec

(* A link that was revoked makes no account (DeleteInvite asks for an      *)
(* unclaimed row, ClaimInvite for a row), though clients hang up, queries  *)
(* fail or lose their answer, and the server stops or is emptied.          *)
THEOREM RevokedStaysRevoked == Spec => RevokedMakesNoAccount
<1>1. TypeOK /\ BusyInv /\ [Next]_vars =>
        [\A r \in accounts' \ accounts : ask[r].invite \notin revoked]_vars
  <2> SUFFICES ASSUME TypeOK, BusyInv, Next, NEW r \in accounts' \ accounts
               PROVE  ask[r].invite \notin revoked
    OBVIOUS
  <2>1. r \in Requests /\ pc[r] = "create"
    BY DEF Next, CreateInvite, Revoke, Expire, Begin, Handle, Claim, Refuse, Create,
           Release, Record, IssueToken, Reset, Crash
  <2>2. QED
    BY <2>1 DEF BusyInv
<1>2. QED
  BY <1>1, TypeCorrect, BusyHolds, PTL DEF Spec, RevokedMakesNoAccount

-----------------------------------------------------------------------------
(* What becomes of an invite.  Who is noted as its user has an account     *)
(* made from it; an account is gone before its time only when the tables   *)
(* were emptied, and then the invite is gone too, for good.                *)

SpentInv ==
    /\ \A i \in Invites : usedBy[i] # Nobody =>
         usedBy[i] \in accounts /\ ask[usedBy[i]].invite = i
    /\ \A r \in Requests : pc[r] \in {"record", "token"} =>
         r \in accounts \/ ask[r].invite \notin stored
    /\ SpentForAnAccount

LEMMA SpentHandle ==
  ASSUME TypeOK, SpentInv, NEW r \in Requests, Handle(r)
  PROVE  SpentInv'
<1>1. /\ ask' = ask /\ stored' = stored /\ accounts \subseteq accounts'
      /\ \A s \in Requests : mishaps[s] \subseteq mishaps'[s]
      /\ \A s \in Requests \ {r} : pc'[s] = pc[s] /\ (s \in accounts' <=> s \in accounts)
      /\ ask[r].invite \in Invites
  BY DEF Handle, Claim, Refuse, Create, Release, Record, IssueToken, Finish, GoOn,
         Befalls, TypeOK
<1>2. claimed \subseteq stored /\ stored \subseteq Invites
  BY DEF TypeOK
(* What the other requests held against an invite, or had made of it, is   *)
(* as it was.                                                              *)
<1>3. ASSUME NEW i \in claimed, i # ask[r].invite
      PROVE  \/ Suffered("stranded", i)'
             \/ \E s \in Requests :
                  /\ ask'[s].invite = i
                  /\ s \in accounts' \/ pc'[s] \in {"create", "release", "record", "token"}
  BY <1>1, <1>3 DEF SpentInv, SpentForAnAccount, Suffered
<1>4. ASSUME claimed' \subseteq claimed \cup {ask[r].invite},
             \/ r \in accounts' \/ pc'[r] \in {"create", "release", "record", "token"}
             \/ "stranded" \in mishaps'[r] \/ ask[r].invite \notin claimed'
      PROVE  SpentForAnAccount'
  BY <1>1, <1>3, <1>4 DEF SpentForAnAccount, Suffered
<1>5. CASE Claim(r)
  <2>1. /\ claimed' \subseteq claimed \cup {ask[r].invite}
        /\ usedBy' = usedBy /\ accounts' = accounts /\ pc'[r] \notin {"record", "token"}
    BY <1>5 DEF Claim, Finish, GoOn, TypeOK
  <2>2. CASE Claimable(r)
    <3>1. \/ pc'[r] = "create" \/ "stranded" \in mishaps'[r]
          \/ claimed' = claimed /\ ask[r].invite \notin claimed
      BY <1>5, <2>2 DEF Claim, Claimable, Carried, AnswerInRequest, Answer, Befalls,
                        Finish, GoOn, TypeOK
    <3>2. SpentForAnAccount'
      BY <1>4, <2>1, <3>1
    <3>3. QED
      BY <1>1, <2>1, <3>2 DEF SpentInv
  <2>3. CASE ~Claimable(r)
    <3>1. claimed' = claimed /\ mishaps' = mishaps /\ pc[r] = "claim"
      BY <1>5, <2>3 DEF Claim
    <3>2. SpentForAnAccount'
      BY <1>1, <2>1, <3>1 DEF SpentInv, SpentForAnAccount, Suffered
    <3>3. QED
      BY <1>1, <2>1, <3>2 DEF SpentInv
  <2>4. QED
    BY <2>2, <2>3
<1>6. CASE Refuse(r)
  <2>1. /\ claimed' = claimed /\ usedBy' = usedBy /\ accounts' = accounts /\ mishaps' = mishaps
        /\ pc[r] = "refuse" /\ pc'[r] = "done"
    BY <1>6 DEF Refuse, Finish, TypeOK
  <2>2. SpentForAnAccount'
    BY <1>1, <2>1 DEF SpentInv, SpentForAnAccount, Suffered
  <2>3. QED
    BY <1>1, <2>1, <2>2 DEF SpentInv
<1>7. CASE Create(r)
  <2>1. PICK a \in AnswerInRequest :
         /\ accounts' = IF ~Taken(r) /\ Carried(a) THEN accounts \cup {r} ELSE accounts
         /\ pc' = [pc EXCEPT ![r] = IF a = "done" /\ ~Taken(r) THEN "record"
                                    ELSE "release"]
    BY <1>7 DEF Create
  <2>2. /\ claimed' = claimed /\ usedBy' = usedBy
        /\ pc'[r] \in {"record", "release"} /\ (pc'[r] = "record" => r \in accounts')
    BY <1>7, <2>1 DEF Create, Carried, TypeOK
  <2>3. SpentForAnAccount'
    BY <1>4, <2>2
  <2>4. QED
    BY <1>1, <2>2, <2>3 DEF SpentInv
<1>8. CASE Release(r)
  <2>1. /\ claimed' \subseteq claimed /\ usedBy' = usedBy /\ accounts' = accounts
        /\ pc[r] = "release" /\ pc'[r] = "done"
    BY <1>8 DEF Release, GoOn, TypeOK
  <2>2. \/ ask[r].invite \notin claimed' \/ "stranded" \in mishaps'[r]
        \/ usedBy[ask[r].invite] # Nobody
    BY <1>8 DEF Release, Carried, Answer, Befalls, TypeOK
  <2>3. SpentForAnAccount'
    <3>1. CASE usedBy[ask[r].invite] # Nobody
      <4>1. /\ usedBy[ask[r].invite] \in accounts
            /\ ask[usedBy[ask[r].invite]].invite = ask[r].invite
        BY <1>1, <3>1 DEF SpentInv
      <4>2. usedBy[ask[r].invite] \in Requests
        BY <4>1 DEF TypeOK
      <4>3. QED
        BY <1>1, <1>3, <2>1, <4>1, <4>2 DEF SpentForAnAccount
    <3>2. QED
      BY <1>4, <2>1, <2>2, <3>1
  <2>4. QED
    BY <1>1, <2>1, <2>3 DEF SpentInv
<1>9. CASE Record(r)
  <2>1. /\ claimed' = claimed /\ accounts' = accounts
        /\ pc[r] = "record" /\ pc'[r] = "token"
        /\ \/ usedBy' = usedBy
           \/ /\ ask[r].invite \in stored
              /\ usedBy' = [usedBy EXCEPT ![ask[r].invite] = r]
    BY <1>9 DEF Record, GoOn, TypeOK
  <2>2. SpentForAnAccount'
    BY <1>4, <2>1
  <2>3. r \in accounts \/ ask[r].invite \notin stored
    BY <2>1 DEF SpentInv
  <2>4. \A i \in Invites : usedBy'[i] # Nobody =>
           usedBy'[i] \in accounts' /\ ask'[usedBy'[i]].invite = i
    BY <1>1, <2>1, <2>3 DEF SpentInv, TypeOK
  <2>5. QED
    BY <1>1, <2>1, <2>2, <2>3, <2>4 DEF SpentInv
<1>10. CASE IssueToken(r)
  <2>1. /\ claimed' = claimed /\ usedBy' = usedBy /\ accounts' = accounts
        /\ pc[r] = "token" /\ pc'[r] = "done"
    BY <1>10 DEF IssueToken, Finish, TypeOK
  <2>2. r \in accounts \/ ask[r].invite \notin claimed
    BY <1>2, <2>1 DEF SpentInv
  <2>3. SpentForAnAccount'
    BY <1>4, <2>1, <2>2
  <2>4. QED
    BY <1>1, <2>1, <2>3 DEF SpentInv
<1>11. QED
  BY <1>5, <1>6, <1>7, <1>8, <1>9, <1>10 DEF Handle

(* A link is left spent with no account, and no registration that might    *)
(* still make one, only where a registration could not give it back: the   *)
(* answer to its claim was lost, its release failed, or the server         *)
(* stopped.  register returns it on every other path.                      *)
THEOREM NoLinkIsWasted == Spec => []SpentForAnAccount
<1>1. Init => SpentInv
  BY DEF Init, SpentInv, SpentForAnAccount
<1>2. TypeOK /\ BusyInv /\ SpentInv /\ [Next]_vars => SpentInv'
  <2> SUFFICES ASSUME TypeOK, BusyInv, SpentInv, [Next]_vars PROVE SpentInv'
    OBVIOUS
  <2>1. ASSUME NEW i \in Invites, CreateInvite(i) PROVE SpentInv'
    <3>1. \A r \in Requests : pc[r] \in {"record", "token"} => ask[r].invite # i
      BY <2>1 DEF CreateInvite, BusyInv, Busy
    <3>2. QED
      BY <2>1, <3>1 DEF CreateInvite, SpentInv, SpentForAnAccount, Suffered
  <2>2. ASSUME NEW i \in Invites, Revoke(i) \/ Expire(i) PROVE SpentInv'
    BY <2>2 DEF Revoke, Expire, SpentInv, SpentForAnAccount, Suffered
  <2>3. ASSUME NEW r \in Requests, Begin(r) PROVE SpentInv'
    <3>1. /\ UNCHANGED <<claimed, usedBy, stored, accounts, ask, mishaps>>
          /\ pc[r] = "new" /\ pc'[r] = "claim" /\ \A s \in Requests \ {r} : pc'[s] = pc[s]
      BY <2>3 DEF Begin, GoOn, TypeOK
    <3>2. SpentForAnAccount'
      BY <3>1 DEF SpentInv, SpentForAnAccount, Suffered
    <3>3. QED
      BY <3>1, <3>2 DEF SpentInv
  <2>4. ASSUME NEW r \in Requests, Handle(r) PROVE SpentInv'
    BY <2>4, SpentHandle
  <2>5. CASE Reset
    BY <2>5 DEF Reset, SpentInv, SpentForAnAccount
  <2>6. CASE Crash
    <3>1. /\ UNCHANGED <<claimed, usedBy, stored, accounts, ask>>
          /\ \A s \in Requests : /\ pc'[s] \in {"new", "done"}
                                 /\ mishaps[s] \subseteq mishaps'[s]
                                 /\ pc[s] \in {"create", "release"} => "stranded" \in mishaps'[s]
      BY <2>6 DEF Crash, TypeOK
    <3>2. claimed \subseteq stored
      BY DEF TypeOK
    <3>3. SpentForAnAccount'
      BY <3>1, <3>2 DEF SpentInv, SpentForAnAccount, Suffered
    <3>4. QED
      BY <3>1, <3>3 DEF SpentInv
  <2>7. CASE UNCHANGED vars
    BY <2>7 DEF vars, SpentInv, SpentForAnAccount, Suffered
  <2>8. QED
    BY <2>1, <2>2, <2>3, <2>4, <2>5, <2>6, <2>7 DEF Next
<1>3. SpentInv => SpentForAnAccount
  BY DEF SpentInv
<1>4. QED
  BY <1>1, <1>2, <1>3, TypeCorrect, BusyHolds, PTL DEF Spec

-----------------------------------------------------------------------------
(* The trace.  Nobody else notes an invite once its account is known of,   *)
(* because nobody else holds it.                                           *)

Traced(r) ==
    /\ r \in accounts
    /\ ask[r].invite \in stored
    /\ "unrecorded" \notin mishaps[r]
    => usedBy[ask[r].invite] = r

TraceInv ==
    /\ \A r \in Requests : pc[r] \in {"new", "claim", "refuse", "create", "record", "token"}
                             => "unsure" \notin mishaps[r] /\ reply[r] # "created"
    /\ \A r \in Requests : pc[r] = "release" => reply[r] # "created"
    /\ \A r \in Requests : reply[r] = "created" => "unsure" \notin mishaps[r]
    /\ \A r \in Requests : pc[r] = "token" \/ reply[r] = "created" => Traced(r)

LEMMA TraceHandle ==
  ASSUME TypeOK, HeldInv, TraceInv, NEW r \in Requests, Handle(r)
  PROVE  TraceInv'
<1>1. /\ ask' = ask /\ stored' = stored
      /\ \A s \in Requests \ {r} : /\ pc'[s] = pc[s] /\ reply'[s] = reply[s]
                                   /\ mishaps'[s] = mishaps[s]
                                   /\ s \in accounts' <=> s \in accounts
  BY DEF Handle, Claim, Refuse, Create, Release, Record, IssueToken, Finish, GoOn,
         Befalls, TypeOK
<1>2. ASSUME NEW s \in Requests \ {r}, pc[s] = "token" \/ reply[s] = "created"
      PROVE  Traced(s)'
  <2>1. CASE usedBy' = usedBy
    BY <1>1, <1>2, <2>1 DEF TraceInv, Traced
  <2>2. CASE Record(r)
    <3>1. \/ usedBy' = usedBy
          \/ usedBy' = [usedBy EXCEPT ![ask[r].invite] = r]
      BY <2>2 DEF Record
    <3>2. s \in accounts => ask[s].invite # ask[r].invite
      BY <1>2, <2>2 DEF Record, HeldInv, Holds, Sure, TraceInv
    <3>3. QED
      BY <1>1, <1>2, <3>1, <3>2 DEF TraceInv, Traced, TypeOK
  <2>3. QED
    BY <2>1, <2>2 DEF Handle, Claim, Refuse, Create, Release, IssueToken
<1>3. CASE Claim(r)
  <2>1. /\ pc[r] = "claim" /\ pc'[r] \in {"refuse", "create", "done"}
        /\ reply'[r] # "created"
        /\ "unsure" \in mishaps'[r] => "unsure" \in mishaps[r]
    BY <1>3 DEF Claim, Finish, GoOn, Befalls, TypeOK, TraceInv
  <2>2. QED
    BY <1>1, <1>2, <2>1 DEF TraceInv
<1>4. CASE Refuse(r)
  <2>1. pc[r] = "refuse" /\ pc'[r] = "done" /\ reply'[r] # "created"
    BY <1>4 DEF Refuse, Finish, TypeOK
  <2>2. QED
    BY <1>1, <1>2, <2>1 DEF TraceInv
<1>5. CASE Create(r)
  <2>1. PICK a \in AnswerInRequest :
         /\ pc' = [pc EXCEPT ![r] = IF a = "done" /\ ~Taken(r) THEN "record"
                                    ELSE "release"]
         /\ reply' = [reply EXCEPT ![r] = IF a # "done" THEN "error"
                                          ELSE IF Taken(r) THEN "conflict" ELSE @]
         /\ IF ~Taken(r) /\ a = "lost" THEN Befalls(r, "unsure") ELSE UNCHANGED mishaps
    BY <1>5 DEF Create
  <2>2. pc[r] = "create" /\ pc'[r] \in {"record", "release"}
    BY <1>5, <2>1 DEF Create, TypeOK
  <2>3. reply'[r] # "created"
    BY <2>1, <2>2 DEF TraceInv, TypeOK
  <2>4. pc'[r] = "record" => "unsure" \notin mishaps'[r]
    BY <2>1, <2>2 DEF TraceInv, TypeOK
  <2>5. QED
    BY <1>1, <1>2, <2>2, <2>3, <2>4 DEF TraceInv
<1>6. CASE Release(r)
  <2>1. pc[r] = "release" /\ pc'[r] = "done" /\ reply'[r] # "created"
    BY <1>6 DEF Release, GoOn, TypeOK, TraceInv
  <2>2. QED
    BY <1>1, <1>2, <2>1 DEF TraceInv
<1>7. CASE Record(r)
  <2>1. /\ pc[r] = "record" /\ pc'[r] = "token" /\ reply'[r] # "created"
        /\ "unsure" \notin mishaps'[r]
    BY <1>7 DEF Record, GoOn, Befalls, TypeOK, TraceInv
  <2>2. Traced(r)'
    <3>1. ask[r].invite \in Invites
      BY DEF TypeOK
    <3>2. \/ "unrecorded" \in mishaps'[r]
          \/ ask[r].invite \notin stored
          \/ usedBy' = [usedBy EXCEPT ![ask[r].invite] = r]
      BY <1>7 DEF Record, Answer, Carried, Befalls, TypeOK
    <3>3. QED
      BY <1>1, <3>1, <3>2 DEF Traced, TypeOK
  <2>3. QED
    BY <1>1, <1>2, <2>1, <2>2 DEF TraceInv
<1>8. CASE IssueToken(r)
  <2>1. /\ pc[r] = "token" /\ pc'[r] = "done"
        /\ UNCHANGED <<mishaps, usedBy, accounts>>
    BY <1>8 DEF IssueToken, Finish, TypeOK
  <2>2. Traced(r)' /\ "unsure" \notin mishaps'[r]
    BY <1>1, <2>1 DEF TraceInv, Traced
  <2>3. QED
    BY <1>1, <1>2, <2>1, <2>2 DEF TraceInv
<1>9. QED
  BY <1>3, <1>4, <1>5, <1>6, <1>7, <1>8 DEF Handle

(* Whoever was told the account is there can be traced from the invite     *)
(* (SetInviteUser before the answer, out of the request's context), unless *)
(* that query itself failed; no later registration takes the trace over.   *)
THEOREM AccountsAreTraceable == Spec => []Traceable
<1>1. Init => TraceInv
  BY DEF Init, TraceInv
<1>2. TypeOK /\ HeldInv /\ TraceInv /\ [Next]_vars => TraceInv'
  <2> SUFFICES ASSUME TypeOK, HeldInv, TraceInv, [Next]_vars PROVE TraceInv'
    OBVIOUS
  <2>1. ASSUME NEW i \in Invites, CreateInvite(i) PROVE TraceInv'
    <3>1. ASSUME NEW r \in accounts, pc[r] = "token" \/ reply[r] = "created"
          PROVE  ask[r].invite # i
      BY <2>1, <3>1 DEF CreateInvite, HeldInv, Holds, Sure, TraceInv, TypeOK
    <3>2. QED
      BY <2>1, <3>1 DEF CreateInvite, TraceInv, Traced
  <2>2. ASSUME NEW i \in Invites, Revoke(i) \/ Expire(i) PROVE TraceInv'
    BY <2>2 DEF Revoke, Expire, TraceInv, Traced
  <2>3. ASSUME NEW r \in Requests, Begin(r) PROVE TraceInv'
    BY <2>3 DEF Begin, GoOn, TraceInv, Traced, TypeOK
  <2>4. ASSUME NEW r \in Requests, Handle(r) PROVE TraceInv'
    BY <2>4, TraceHandle
  <2>5. CASE Reset
    BY <2>5 DEF Reset, TraceInv, Traced
  <2>6. CASE Crash
    <3>1. /\ UNCHANGED <<usedBy, stored, accounts, ask>>
          /\ \A s \in Requests :
               /\ pc'[s] \in {"new", "done"} /\ (pc'[s] = "new" => pc[s] = "new")
               /\ mishaps[s] \subseteq mishaps'[s]
               /\ "unsure" \in mishaps'[s] => "unsure" \in mishaps[s]
               /\ reply'[s] \in {reply[s], "none"}
      BY <2>6 DEF Crash, TypeOK
    <3>2. QED
      BY <3>1 DEF TraceInv, Traced
  <2>7. CASE UNCHANGED vars
    BY <2>7 DEF vars, TraceInv, Traced
  <2>8. QED
    BY <2>1, <2>2, <2>3, <2>4, <2>5, <2>6, <2>7 DEF Next
<1>3. TypeOK /\ TraceInv => Traceable
  BY DEF TypeOK, TraceInv, Traced, Traceable
<1>4. QED
  BY <1>1, <1>2, <1>3, TypeCorrect, HeldHolds, PTL DEF Spec

=============================================================================
