------------------------------- MODULE People -------------------------------
(***************************************************************************)
(* What people do with their own row: sign in, reset or change the         *)
(* password, change the username, the security answer or the picture.      *)
(***************************************************************************)
EXTENDS Registry

\* The row a call writes.
Target(c) == IF req[c].op \in {"password", "reset"} THEN found[c] ELSE req[c].by

\* The columns a call writes, and what it writes there.
Patch(c) ==
  CASE Is(c, "profile")  -> [f \in {"username"} |-> StoredUsername(c)]
    [] Is(c, "security") -> [f \in {"answer"} |-> req[c].secret]
    [] Is(c, "avatar")   -> [f \in {"avatar"} |-> c]
    [] OTHER             -> [f \in {"password"} |-> req[c].password]

\* authenticate: the user with that name, if the password is the one stored.
CheckLogin(c) ==
  /\ Is(c, "login")
  /\ Inside(c, "check")
  /\ \/ \E u \in Users :
          /\ Finds(u, req[c].name)
          /\ user[u].password = req[c].secret
          /\ found' = [found EXCEPT ![c] = u]
          /\ Then(c, "audit")
     \/ /\ \A u \in Users : Finds(u, req[c].name) => user[u].password # req[c].secret
        /\ Answer(c, "REFUSED")
        /\ UNCHANGED found
  /\ UNCHANGED <<req, tables, picked, sawSettlement>>

\* Mutant: any answer will do for a user who has given none.
AnswerIsRight_NoneGiven(u, secret) == user[u].answer \in {secret, None}

\* verifySecurityAnswer
AnswerIsRight(u, secret) == Same(user[u].answer, secret)

\* reset-password looks the user up and compares the security answer ...
CheckReset(c) ==
  /\ Is(c, "reset")
  /\ Inside(c, "check")
  /\ \/ \E u \in Users :
          /\ Finds(u, req[c].name)
          /\ AnswerIsRight(u, req[c].secret)
          /\ found' = [found EXCEPT ![c] = u]
          /\ Then(c, "write")
     \/ /\ \A u \in Users : Finds(u, req[c].name) => ~AnswerIsRight(u, req[c].secret)
        /\ Answer(c, "REFUSED")
        /\ UNCHANGED found
  /\ UNCHANGED <<req, tables, picked, sawSettlement>>

\* The password route compares the current password ...
CheckPassword(c) ==
  /\ Is(c, "password")
  /\ Inside(c, "check")
  /\ \/ /\ user[req[c].by].password = req[c].secret
        /\ found' = [found EXCEPT ![c] = req[c].by]
        /\ Then(c, "write")
     \/ /\ user[req[c].by].password # req[c].secret
        /\ Answer(c, "REFUSED")
        /\ UNCHANGED found
  /\ UNCHANGED <<req, tables, picked, sawSettlement>>

\* Mutant: the username is not looked up first.
CheckProfile_Skipped(c) ==
  /\ Is(c, "profile")
  /\ Inside(c, "check")
  /\ Then(c, "write")
  /\ UNCHANGED <<req, tables, reads>>

\* The profile route looks whether somebody else has the username, if there is one ...
CheckProfile(c) ==
  /\ Is(c, "profile")
  /\ Inside(c, "check")
  /\ \/ /\ NameTaken(req[c].by, None, StoredUsername(c))
        /\ Answer(c, "REFUSED")
     \/ /\ ~NameTaken(req[c].by, None, StoredUsername(c))
        /\ Then(c, "write")
  /\ UNCHANGED <<req, tables, reads>>

\* Mutant: a new security answer is not audited.
AfterWrite_Forgotten(c) ==
  CASE Is(c, "avatar") -> RecordAudit(c) /\ Answer(c, "OK")
    [] req[c].op \in {"reset", "security"} -> UNCHANGED audit /\ Answer(c, "OK")
    [] OTHER -> UNCHANGED audit /\ Then(c, "audit")

\* What follows the write: the picture's audit row is part of its transaction, the
\* reset has none, the others write theirs in one more transaction.
AfterWrite(c) ==
  CASE Is(c, "avatar") -> RecordAudit(c) /\ Answer(c, "OK")
    [] Is(c, "reset")  -> UNCHANGED audit /\ Answer(c, "OK")
    [] OTHER           -> UNCHANGED audit /\ Then(c, "audit")

\* Mutant: the whole row is written, as it was when the founders' rows were read.
Written_WholeRow(c, f) ==
  IF f \in DOMAIN Patch(c) THEN Patch(c)[f]
  ELSE IF Target(c) \in Founders THEN FoundersRow[Target(c)][f] ELSE user[Target(c)][f]

\* The row after the update: only the columns given change.
Written(c, f) == IF f \in DOMAIN Patch(c) THEN Patch(c)[f] ELSE user[Target(c)][f]

\* ... and each of them writes, without looking again.
Store(c) ==
  /\ Inside(c, "write")
  /\ user' = [user EXCEPT ![Target(c)] = [f \in Fields |-> Written(c, f)]]
  /\ Committed(c)
  /\ AfterWrite(c)
  /\ UNCHANGED <<req, account, settlement, reads>>

ResetPassword(c) == Is(c, "reset") /\ Store(c)
ChangePassword(c) == Is(c, "password") /\ Store(c)

\* The security answer and the picture are written at once, without a check.
ChangeAnswer(c) == Is(c, "security") /\ Store(c)
ChangePicture(c) == Is(c, "avatar") /\ Store(c)

\* The username is unique: somebody may have taken it since it was looked up.
ChangeUsername(c) ==
  /\ Is(c, "profile")
  /\ Inside(c, "write")
  /\ \/ /\ NameTaken(Target(c), None, StoredUsername(c))
        /\ Answer(c, "TAKEN")
        /\ UNCHANGED <<req, tables, reads>>
     \/ /\ ~NameTaken(Target(c), None, StoredUsername(c))
        /\ Store(c)

\* recordAudit in a transaction of its own.
WriteAudit(c) ==
  /\ Inside(c, "audit")
  /\ RecordAudit(c)
  /\ Answer(c, "OK")
  /\ UNCHANGED <<req, user, account, settlement, committed, reads>>

PeopleNext(c) ==
  \/ CheckLogin(c)
  \/ CheckReset(c)
  \/ CheckPassword(c)
  \/ CheckProfile(c)
  \/ ResetPassword(c)
  \/ ChangePassword(c)
  \/ ChangeAnswer(c)
  \/ ChangePicture(c)
  \/ ChangeUsername(c)
  \/ WriteAudit(c)
=============================================================================
