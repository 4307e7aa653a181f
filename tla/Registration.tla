---------------------------- MODULE Registration ----------------------------
(***************************************************************************)
(* Joining a gator server: the invite links the operator hands out         *)
(* (internal/cli/invite.go) and the registrations that spend them          *)
(* (internal/api/auth.go), which share the database and nothing else.      *)
(*                                                                         *)
(* A registration is several queries with no transaction around them:      *)
(* claim the invite, create the account, give the invite back when that    *)
(* failed, note who used it, issue a token.  Registrations interleave with *)
(* each other and with the operator's commands between any two of them.    *)
(*                                                                         *)
(* Each element of Requests is one registration and, if it comes to that,  *)
(* the account it makes.                                                   *)
(***************************************************************************)
EXTENDS Integers

CONSTANTS
    Requests,   \* POST /v1/users, each one request
    Invites,    \* invite links
    Names,      \* user names (an email goes with each)
    Nobody,     \* no account
    Faults      \* what the environment may do, see FaultKinds

FaultKinds ==
    { "cancel",   \* the client hangs up: queries in the request's context fail
      "db",       \* the database fails any query
      "crash",    \* the server stops with requests under way
      "reset" }   \* the operator empties the database

ASSUME RegistrationAssumption ==
    /\ Nobody \notin Requests
    /\ Faults \subseteq FaultKinds

VARIABLES
    issued,     \* invites ever created
    stored,     \* rows of the table invites
    claimed,    \* ... with claimed_at set
    usedBy,     \* ... and their user_id
    expired,    \* invites whose expires_at has passed
    accounts,   \* rows of the table users
    granted,    \* accounts with a row in api_tokens from their registration
    pc,         \* where each request is in register
    ask,        \* the invite and the name it came with
    fresh,      \* the time it took ("now") was before the invite expires
    reply,      \* what it was answered, "none" before and after a crash
    \* history, read by the properties and never by an action
    revoked,    \* invites the operator revoked
    mishaps     \* what went wrong for each request, see MishapKinds

vars == <<issued, stored, claimed, usedBy, expired, accounts, granted, pc, ask,
          fresh, reply, revoked, mishaps>>

MishapKinds ==
    { "unsure",      \* its account was created and the answer lost
      "unrecorded",  \* who used the invite was not noted
      "stranded" }   \* it went away with an invite it had claimed

Befalls(r, kind) == mishaps' = [mishaps EXCEPT ![r] = @ \cup {kind}]

Reply == {"none", "created", "conflict", "used", "expired", "invalid", "error"}

TypeOK ==
    /\ issued \subseteq Invites
    /\ stored \subseteq issued
    /\ claimed \subseteq stored
    /\ usedBy \in [Invites -> Requests \cup {Nobody}]
    /\ expired \subseteq Invites
    /\ accounts \subseteq Requests
    /\ granted \subseteq accounts
    /\ pc \in [Requests -> {"new", "claim", "refuse", "create", "release",
                            "record", "token", "done"}]
    /\ ask \in [Requests -> [invite : Invites, name : Names]]
    /\ fresh \in [Requests -> BOOLEAN]
    /\ reply \in [Requests -> Reply]
    /\ revoked \subseteq issued
    /\ mishaps \in [Requests -> SUBSET MishapKinds]

Init ==
    /\ issued = {} /\ stored = {} /\ claimed = {} /\ expired = {} /\ revoked = {}
    /\ usedBy = [i \in Invites |-> Nobody]
    /\ accounts = {} /\ granted = {}
    /\ pc = [r \in Requests |-> "new"]
    /\ ask \in [Requests -> [invite : Invites, name : Names]]
    /\ fresh = [r \in Requests |-> FALSE]
    /\ reply = [r \in Requests |-> "none"]
    /\ mishaps = [r \in Requests |-> {}]

-----------------------------------------------------------------------------
(* The operator's commands, and time *)

(* gator invite: a fresh code, good until its TTL is over.                 *)
CreateInvite(i) ==
    /\ i \notin issued
    /\ issued' = issued \cup {i}
    /\ stored' = stored \cup {i}
    /\ UNCHANGED <<claimed, usedBy, expired, accounts, granted, pc, ask, fresh,
                   reply, revoked, mishaps>>

(* Seeded bug: revoking deletes the link whether it is claimed or not.     *)
RevokeAny(i) ==
    /\ i \in stored
    /\ stored' = stored \ {i}
    /\ claimed' = claimed \ {i}
    /\ usedBy' = [usedBy EXCEPT ![i] = Nobody]
    /\ revoked' = revoked \cup {i}
    /\ UNCHANGED <<issued, expired, accounts, granted, pc, ask, fresh, reply, mishaps>>

(* gator invite --revoke, DeleteInvite: only a link nobody has claimed.    *)
Revoke(i) ==
    /\ i \in stored \ claimed
    /\ stored' = stored \ {i}
    /\ revoked' = revoked \cup {i}
    /\ UNCHANGED <<issued, claimed, usedBy, expired, accounts, granted, pc, ask,
                   fresh, reply, mishaps>>

Expire(i) ==
    /\ i \in issued \ expired
    /\ expired' = expired \cup {i}
    /\ UNCHANGED <<issued, stored, claimed, usedBy, accounts, granted, pc, ask,
                   fresh, reply, revoked, mishaps>>

(* gator reset, TruncateAll, beside a server that is running.              *)
Reset ==
    /\ "reset" \in Faults
    /\ stored' = {} /\ claimed' = {} /\ accounts' = {} /\ granted' = {}
    /\ usedBy' = [i \in Invites |-> Nobody]
    /\ UNCHANGED <<issued, expired, pc, ask, fresh, reply, revoked, mishaps>>

-----------------------------------------------------------------------------
(* register *)

(* How a query ends: done, failed, cut off before it was carried out, or   *)
(* carried out and its answer lost.                                        *)
Answer == {"done"} \cup (IF "db" \in Faults THEN {"failed", "lost"} ELSE {})
AnswerInRequest ==
    Answer \cup (IF "cancel" \in Faults THEN {"cut", "lost"} ELSE {})
Carried(a) == a \in {"done", "lost"}

Finish(r, answer) ==
    /\ pc' = [pc EXCEPT ![r] = "done"]
    /\ reply' = [reply EXCEPT ![r] = answer]

GoOn(r, next) == pc' = [pc EXCEPT ![r] = next] /\ UNCHANGED reply

(* The request passed its checks, its password is hashed, and the time is  *)
(* taken.                                                                  *)
Begin(r) ==
    /\ pc[r] = "new"
    /\ GoOn(r, "claim")
    /\ fresh' = [fresh EXCEPT ![r] = ask[r].invite \notin expired]
    /\ UNCHANGED <<issued, stored, claimed, usedBy, expired, accounts, granted, ask,
                   revoked, mishaps>>

(* Seeded bug: the claim does not ask for an unclaimed invite.             *)
ClaimableTwice(r) == ask[r].invite \in stored /\ fresh[r]

Claimable(r) == ask[r].invite \in stored \ claimed /\ fresh[r]

(* Seeded bug: a claim inserts the row it does not find.                   *)
ClaimUpsert(r) ==
    /\ pc[r] = "claim"
    /\ claimed' = claimed \cup {ask[r].invite}
    /\ GoOn(r, "create")
    /\ UNCHANGED <<issued, stored, usedBy, expired, accounts, granted, ask, fresh,
                   revoked, mishaps>>

(* ClaimInvite: one UPDATE takes the invite or finds none to take.         *)
Claim(r) ==
    /\ pc[r] = "claim"
    /\ \E a \in AnswerInRequest :
         /\ claimed' = IF Claimable(r) /\ Carried(a)
                       THEN claimed \cup {ask[r].invite} ELSE claimed
         /\ IF Claimable(r) /\ a = "lost" THEN Befalls(r, "stranded") ELSE UNCHANGED mishaps
         /\ IF a # "done" THEN Finish(r, "error")
            ELSE GoOn(r, IF Claimable(r) THEN "create" ELSE "refuse")
    /\ UNCHANGED <<issued, stored, usedBy, expired, accounts, granted, ask, fresh,
                   revoked>>

(* inviteRefusal: look the invite up again to say why.                     *)
Refuse(r) ==
    /\ pc[r] = "refuse"
    /\ \E a \in AnswerInRequest :
         LET i == ask[r].invite IN
         Finish(r, IF a # "done" \/ i \notin stored THEN "invalid"
                   ELSE IF i \in claimed THEN "used" ELSE "expired")
    /\ UNCHANGED <<issued, stored, claimed, usedBy, expired, accounts, granted, ask,
                   fresh, revoked, mishaps>>

Taken(r) == \E u \in accounts : ask[u].name = ask[r].name

(* CreateUserWithCredentials: names and emails are unique.                 *)
Create(r) ==
    /\ pc[r] = "create"
    /\ \E a \in AnswerInRequest :
         /\ accounts' = IF ~Taken(r) /\ Carried(a) THEN accounts \cup {r} ELSE accounts
         /\ pc' = [pc EXCEPT ![r] = IF a = "done" /\ ~Taken(r) THEN "record"
                                    ELSE "release"]
         /\ reply' = [reply EXCEPT ![r] = IF a # "done" THEN "error"
                                          ELSE IF Taken(r) THEN "conflict" ELSE @]
         /\ IF ~Taken(r) /\ a = "lost" THEN Befalls(r, "unsure") ELSE UNCHANGED mishaps
    /\ UNCHANGED <<issued, stored, claimed, usedBy, expired, granted, ask, fresh,
                   revoked>>

(* Seeded bug: the invite is given back in the request's context.          *)
ReleaseInRequest(r) ==
    /\ pc[r] = "release"
    /\ \E a \in AnswerInRequest :
         /\ claimed' = IF Carried(a) /\ usedBy[ask[r].invite] = Nobody
                       THEN claimed \ {ask[r].invite} ELSE claimed
         /\ IF a = "failed" THEN Befalls(r, "stranded") ELSE UNCHANGED mishaps
    /\ GoOn(r, "done")
    /\ UNCHANGED <<issued, stored, usedBy, expired, accounts, granted, ask, fresh,
                   revoked>>

(* releaseInvite, out of the request's context: the invite is free again,  *)
(* unless somebody is known to have used it.                               *)
Release(r) ==
    /\ pc[r] = "release"
    /\ \E a \in Answer :
         /\ claimed' = IF Carried(a) /\ usedBy[ask[r].invite] = Nobody
                       THEN claimed \ {ask[r].invite} ELSE claimed
         /\ IF a = "failed" THEN Befalls(r, "stranded") ELSE UNCHANGED mishaps
    /\ GoOn(r, "done")
    /\ UNCHANGED <<issued, stored, usedBy, expired, accounts, granted, ask, fresh,
                   revoked>>

(* Seeded bug: who used the invite is recorded in the request's context.   *)
RecordInRequest(r) ==
    /\ pc[r] = "record"
    /\ \E a \in AnswerInRequest :
         /\ usedBy' = IF Carried(a) /\ ask[r].invite \in stored
                      THEN [usedBy EXCEPT ![ask[r].invite] = r] ELSE usedBy
         /\ IF a = "failed" THEN Befalls(r, "unrecorded") ELSE UNCHANGED mishaps
    /\ GoOn(r, "token")
    /\ UNCHANGED <<issued, stored, claimed, expired, accounts, granted, ask, fresh,
                   revoked>>

(* SetInviteUser, out of the request's context; a failure is only logged.  *)
Record(r) ==
    /\ pc[r] = "record"
    /\ \E a \in Answer :
         /\ usedBy' = IF Carried(a) /\ ask[r].invite \in stored
                      THEN [usedBy EXCEPT ![ask[r].invite] = r] ELSE usedBy
         /\ IF a = "failed" THEN Befalls(r, "unrecorded") ELSE UNCHANGED mishaps
    /\ GoOn(r, "token")
    /\ UNCHANGED <<issued, stored, claimed, expired, accounts, granted, ask, fresh,
                   revoked>>

(* respondWithToken: a token needs its account's row.                      *)
IssueToken(r) ==
    /\ pc[r] = "token"
    /\ \E a \in AnswerInRequest :
         /\ granted' = IF r \in accounts /\ Carried(a) THEN granted \cup {r} ELSE granted
         /\ Finish(r, IF r \in accounts /\ a = "done" THEN "created" ELSE "error")
    /\ UNCHANGED <<issued, stored, claimed, usedBy, expired, accounts, ask, fresh,
                   revoked, mishaps>>

(* The server stops: no request under way goes on or is answered.          *)
Crash ==
    /\ "crash" \in Faults
    /\ pc' = [r \in Requests |-> IF pc[r] = "new" THEN "new" ELSE "done"]
    /\ reply' = [r \in Requests |-> IF pc[r] = "done" THEN reply[r] ELSE "none"]
    /\ mishaps' = [r \in Requests |-> mishaps[r] \cup
         (IF pc[r] \in {"create", "release"} THEN {"stranded"}
          ELSE IF pc[r] = "record" THEN {"unrecorded"} ELSE {})]
    /\ UNCHANGED <<issued, stored, claimed, usedBy, expired, accounts, granted, ask,
                   fresh, revoked>>

Handle(r) ==
    \/ Claim(r) \/ Refuse(r) \/ Create(r) \/ Release(r) \/ Record(r) \/ IssueToken(r)

Next ==
    \/ \E i \in Invites : CreateInvite(i) \/ Revoke(i) \/ Expire(i)
    \/ \E r \in Requests : Begin(r) \/ Handle(r)
    \/ Reset
    \/ Crash

Spec == Init /\ [][Next]_vars

-----------------------------------------------------------------------------
(* Properties *)

(* A registration and a link it asked for: what may be held against it.    *)
Suffered(kind, i) == \E r \in Requests : ask[r].invite = i /\ kind \in mishaps[r]

(* No two accounts come from one invite (ClaimInvite, ReleaseInvite),      *)
(* however registrations overlap, fail and are retried, and whatever the   *)
(* operator does between them; but an account that was created and whose   *)
(* answer was lost, so that register gave its invite back, does not count. *)
OneAccountPerInvite ==
    \A r, s \in {u \in accounts : "unsure" \notin mishaps[u]} :
        ask[r].invite = ask[s].invite => r = s

(* A link that was revoked makes no account, whatever registration was     *)
(* under way when it was (DeleteInvite asks for an unclaimed row).         *)
RevokedMakesNoAccount ==
    [][\A r \in accounts' \ accounts : ask[r].invite \notin revoked]_vars

(* A link is left spent with no account, and no registration that might    *)
(* still make one, only where a registration could not give it back: its   *)
(* claim's answer was lost, its release failed, or the server stopped.     *)
(* Every other failure path of register returns it.                        *)
SpentForAnAccount ==
    \A i \in claimed : Suffered("stranded", i) \/ \E r \in Requests :
        /\ ask[r].invite = i
        /\ r \in accounts \/ pc[r] \in {"create", "release", "record", "token"}

(* Whoever was told the account is there can be traced from the invite,    *)
(* though the client may have hung up in the middle (SetInviteUser runs    *)
(* out of the request's context, before the answer), unless that query     *)
(* itself failed; and no later registration takes the trace over.          *)
Traceable ==
    \A r \in accounts :
        /\ reply[r] = "created"
        /\ ask[r].invite \in stored
        /\ "unrecorded" \notin mishaps[r]
        => usedBy[ask[r].invite] = r

=============================================================================
