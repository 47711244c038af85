--------------------------- MODULE AccountsProofs ---------------------------
(***************************************************************************)
(* Proofs about Migration and Accounts, for any sessions, names, texts and *)
(* number of users.                                                        *)
(*                                                                         *)
(* The file: which of its versions an opening may meet at which statement. *)
(* The users: rows keep name, password and id; only a save changes a       *)
(* profile, and it marks every other session of that user as stale.        *)
(***************************************************************************)
EXTENDS Accounts, SequenceTheorems, TLAPS

(* What the file holds while Open is on its way. *)
FileOK ==
    /\ MigrationTypeOK
    /\ version # 0 => tables
    /\ version = 2 => lastLogin
    /\ opening \in {"schema", "setV1", "commit"} => version = 0
    /\ opening \in {"alter", "setV2"} => version = 1
    /\ opening = "setV2" => lastLogin
    /\ opening = "serving" => version = 2

Auth(s) ==
    pc[s] \in LoggedIn => /\ id[s] \in Named(typed[s].name)
                          /\ users[id[s]].secret = typed[s].secret

Fresh(s) ==
    pc[s] \in LoggedIn /\ s \notin stale =>
        users[id[s]].profile = Clipped(copy[s])

(* registerFlow clips before it creates. *)
FormOK(s) == pc[s] = "create" => Clipped(form[s]) = form[s]

SessionOK(s) == Auth(s) /\ Fresh(s) /\ FormOK(s)

(* Whatever is stored was clipped. *)
RowsClipped ==
    \A i \in DOMAIN users : Clipped(users[i].profile) = users[i].profile

IInv ==
    /\ TypeOK /\ FileOK
    /\ UniqueNames /\ RowsClipped
    /\ \A s \in Sessions : SessionOK(s)

-----------------------------------------------------------------------------
(* The file. *)

(* A file is consistent when the program starts. *)
LEMMA FileInit == MigrationInit => FileOK
<1> SUFFICES ASSUME MigrationInit PROVE FileOK
  OBVIOUS
<1>1. version \in {0, 1, 2} /\ opening = "down"
  BY SMT DEF MigrationInit
<1>2. version \in 0 .. 2
  BY DEF MigrationInit
<1>3. tables \in BOOLEAN /\ lastLogin \in BOOLEAN
  <2>1. tables = (version >= 1) /\ lastLogin = (version >= 2)
    BY DEF MigrationInit
  <2>2. (version >= 1) \in BOOLEAN /\ (version >= 2) \in BOOLEAN
    BY <1>1
  <2> QED
    BY Zenon, <2>1, <2>2
<1>4. (version # 0 => version >= 1) /\ (version = 2 => version >= 2)
  BY <1>1
<1>5. (version # 0 => tables) /\ (version = 2 => lastLogin)
  BY Zenon, <1>4 DEF MigrationInit
<1> QED
  BY Zenon, <1>1, <1>2, <1>3, <1>5 DEF FileOK, MigrationTypeOK, Steps

(* Every statement of Open, its failure and a crash keep the file so. *)
LEMMA FileStep ==
  ASSUME FileOK, MigrationStep \/ StopProcess \/ UNCHANGED migrationVars
  PROVE  FileOK'
<1> USE DEF FileOK, MigrationTypeOK, fileVars, At, Steps
<1>1. CASE StartProcess \/ ReadVersion
  BY <1>1 DEF StartProcess, ReadVersion
<1>2. CASE ApplySchema \/ SetVersion1
  BY <1>2 DEF ApplySchema, SetVersion1
<1>3. CASE Commit
  <2>1. version' = 1 /\ tables' = TRUE /\ lastLogin' = lastLogin /\ opening' = "alter"
    BY <1>3 DEF Commit
  <2>2. version' \in 0 .. 2 /\ version' # 2
    BY <2>1
  <2> QED
    BY Zenon, <2>1, <2>2
<1>4. CASE AddColumn
  BY <1>4 DEF AddColumn
<1>5. CASE SetVersion2
  <2>1. version' = 2 /\ tables' = tables /\ lastLogin' = lastLogin
    BY <1>5 DEF SetVersion2
  <2>2. opening = "setV2" /\ opening' = "serving"
    BY <1>5 DEF SetVersion2
  <2>3. tables /\ lastLogin /\ version' \in 0 .. 2
    BY <2>1, <2>2
  <2> QED
    BY Zenon, <2>1, <2>2, <2>3
<1>6. CASE DuplicateColumn
  BY <1>6 DEF DuplicateColumn
<1>7. CASE StopProcess \/ UNCHANGED migrationVars
  BY <1>7 DEF StopProcess, migrationVars
<1> QED
  BY <1>1, <1>2, <1>3, <1>4, <1>5, <1>6, <1>7 DEF MigrationStep
-----------------------------------------------------------------------------
(* Kinds of steps of a session. *)

(* Reading keys and looking things up: the users stay as they are. *)
Quiet(s) ==
    \/ Connect(s) \/ GateKey(s) \/ GiveUpLogin(s)
    \/ \E n \in Names, p \in Secrets : TypeLogin(s, n, p)
    \/ LookupUnknown(s) \/ UnknownKey(s) \/ LookupIncorrect(s)
    \/ Rejected(s) \/ CheckTaken(s) \/ CheckFree(s)
    \/ \E n \in Names : TypeName(s, n)
    \/ \E p \in Secrets, profile \in Profiles : TypeDetails(s, p, profile)
    \/ CreateFails(s) \/ StampFails(s) \/ SaveFails(s)
    \/ \E profile \in Profiles : TypeProfile(s, profile)

(* A step of a session is quiet or one of the five that are not. *)
LEMMA StepKinds ==
  ASSUME NEW s \in Sessions, SessionStep(s)
  PROVE  \/ Quiet(s) \/ EndSession(s) \/ CreateUser(s)
         \/ StampLogin(s) \/ SaveProfile(s)
         \/ \E i \in DOMAIN users : LookupCorrect(s, i)
BY DEF SessionStep, LoginStep, RegisterStep, UserStep, Quiet

(* The other sessions' variables stay. *)
Others(s) ==
    \A r \in Sessions \ {s} :
        /\ pc'[r] = pc[r] /\ typed'[r] = typed[r] /\ id'[r] = id[r]
        /\ copy'[r] = copy[r] /\ form'[r] = form[r]

(* NoTyped and NoProfile have the types of what is typed. *)
LEMMA Nothing ==
  NoTyped \in [name : Names, secret : Secrets] /\ NoProfile \in Profiles
<1>1. PICK n \in Names, p \in Secrets : TRUE
  BY AccountsAssumption
<1>2. [name |-> n, secret |-> p] \in [name : Names, secret : Secrets]
  OBVIOUS
<1>3. NoTyped \in [name : Names, secret : Secrets]
  BY <1>2 DEF NoTyped
<1> QED
  BY <1>3, AccountsAssumption DEF NoProfile, Profiles

(* Clipping a profile gives a profile, and clipping it again changes       *)
(* nothing.                                                                *)
LEMMA ClipTwice ==
  ASSUME NEW p \in Profiles
  PROVE  Clipped(p) \in Profiles /\ Clipped(Clipped(p)) = Clipped(p)
BY AccountsAssumption DEF Clipped, Profiles

(* What a quiet step does to its own session, and that it does no more. *)
LEMMA QuietEffect ==
  ASSUME TypeOK, NEW s \in Sessions, Quiet(s)
  PROVE  /\ UNCHANGED <<users, id, copy, stale>> /\ Others(s)
         /\ pc' \in [Sessions -> Gate \union LoggedIn \union {"off"}]
         /\ typed' \in [Sessions -> [name : Names, secret : Secrets]]
         /\ form' \in [Sessions -> Profiles]
         /\ pc'[s] \in LoggedIn => pc[s] \in LoggedIn /\ typed'[s] = typed[s]
         /\ FormOK(s)'
<1> USE Nothing DEF TypeOK, Go, Goto, ForgetTyped, ForgetForm, formVars,
                    Others, Gate, LoggedIn, FormOK
<1>1. CASE Connect(s) \/ GateKey(s) \/ GiveUpLogin(s)
  BY <1>1 DEF Connect, GateKey, GiveUpLogin
<1>2. CASE \E n \in Names, p \in Secrets : TypeLogin(s, n, p)
  BY <1>2 DEF TypeLogin
<1>3. CASE LookupUnknown(s) \/ UnknownKey(s) \/ LookupIncorrect(s)
  BY <1>3 DEF LookupUnknown, UnknownKey, LookupIncorrect
<1>4. CASE Rejected(s) \/ CheckTaken(s) \/ CheckFree(s)
  BY <1>4 DEF Rejected, CheckTaken, CheckFree
<1>5. ASSUME NEW n \in Names, TypeName(s, n)
      PROVE  /\ UNCHANGED <<users, id, copy, stale>> /\ Others(s)
             /\ pc' \in [Sessions -> Gate \union LoggedIn \union {"off"}]
             /\ typed' \in [Sessions -> [name : Names, secret : Secrets]]
             /\ form' \in [Sessions -> Profiles]
             /\ pc'[s] = "check"
  <2>1. typed' = [typed EXCEPT ![s] = [typed[s] EXCEPT !.name = n]]
    BY <1>5 DEF TypeName
  <2>2. [typed[s] EXCEPT !.name = n] \in [name : Names, secret : Secrets]
    BY <1>5
  <2>3. /\ typed' \in [Sessions -> [name : Names, secret : Secrets]]
        /\ \A r \in Sessions \ {s} : typed'[r] = typed[r]
    BY <2>1, <2>2
  <2> QED
    BY <1>5, <2>3 DEF TypeName
<1>6. ASSUME NEW p \in Secrets, NEW q \in Profiles, TypeDetails(s, p, q)
      PROVE  /\ UNCHANGED <<users, id, copy, stale>> /\ Others(s)
             /\ pc' \in [Sessions -> Gate \union LoggedIn \union {"off"}]
             /\ typed' \in [Sessions -> [name : Names, secret : Secrets]]
             /\ form' \in [Sessions -> Profiles]
             /\ pc'[s] = "create"
             /\ FormOK(s)'
  <2>1. form'[s] = Clipped(q) /\ Clipped(q) \in Profiles
    BY <1>6, ClipTwice DEF TypeDetails
  <2>2. Clipped(form'[s]) = form'[s]
    BY <2>1, ClipTwice
  <2> QED
    BY <1>6, <2>1, <2>2 DEF TypeDetails, Clipped
<1>7. CASE CreateFails(s)
  BY <1>7 DEF CreateFails
<1>9. CASE StampFails(s) \/ SaveFails(s)
  BY <1>9 DEF StampFails, SaveFails
<1>8. CASE \E profile \in Profiles : TypeProfile(s, profile)
  BY <1>8 DEF TypeProfile
<1> QED
  BY <1>1, <1>2, <1>3, <1>4, <1>5, <1>6, <1>7, <1>8, <1>9 DEF Quiet

-----------------------------------------------------------------------------
(* The rows of users and the sessions that a step leaves alone. *)

(* A change of one row, seen as a sequence. *)
LEMMA RowChanged ==
  ASSUME NEW q \in Seq(Users), NEW i \in DOMAIN q, NEW e \in Users
  PROVE  /\ [q EXCEPT ![i] = e] \in Seq(Users)
         /\ DOMAIN [q EXCEPT ![i] = e] = DOMAIN q
         /\ [q EXCEPT ![i] = e][i] = e
         /\ \A j \in DOMAIN q \ {i} : [q EXCEPT ![i] = e][j] = q[j]
<1>1. i \in 1 .. Len(q) /\ q = [j \in 1 .. Len(q) |-> q[j]]
  BY LenProperties
<1>2. [q EXCEPT ![i] = e] \in Seq(Users)
  BY <1>1, ExceptSeq
<1> QED
  BY <1>1, <1>2

(* Names, passwords and numbers of users stay. *)
RowsKept ==
    /\ DOMAIN users \subseteq DOMAIN users'
    /\ \A i \in DOMAIN users : /\ users'[i].name = users[i].name
                               /\ users'[i].secret = users[i].secret

(* A session that stays with its user and name stays authenticated. *)
LEMMA AuthKept ==
  ASSUME NEW r \in Sessions, Auth(r), RowsKept,
         pc'[r] \in LoggedIn => /\ pc[r] \in LoggedIn
                               /\ typed'[r] = typed[r] /\ id'[r] = id[r]
  PROVE  Auth(r)'
BY DEF Auth, RowsKept, Named

(* The sessions that do not act keep all they rely on. *)
LEMMA OthersOK ==
  ASSUME NEW s \in Sessions, NEW r \in Sessions \ {s},
         SessionOK(r), RowsKept, Others(s),
         pc[r] \in LoggedIn /\ r \notin stale' =>
             r \notin stale /\ users'[id[r]].profile = users[id[r]].profile
  PROVE  SessionOK(r)'
<1>1. Auth(r)'
  BY AuthKept DEF Others, SessionOK
<1>2. Fresh(r)'
  BY DEF Others, SessionOK, Fresh
<1>3. FormOK(r)'
  BY DEF Others, SessionOK, FormOK
<1> QED
  BY <1>1, <1>2, <1>3 DEF SessionOK

(* Names stay unique while no row is added. *)
LEMMA UniqueKept ==
  ASSUME UniqueNames, RowsKept, DOMAIN users' = DOMAIN users
  PROVE  UniqueNames'
BY DEF UniqueNames, RowsKept

(* A session that only reads the users. *)
LEMMA ReadersOK ==
  ASSUME IInv, NEW s \in Sessions, users' = users, Others(s),
         stale' = stale \/ stale' = stale \ {s}
  PROVE  /\ RowsKept /\ UniqueNames' /\ RowsClipped'
         /\ \A r \in Sessions \ {s} : SessionOK(r)'
<1>1. RowsKept
  BY DEF RowsKept
<1>2. UniqueNames' /\ RowsClipped'
  BY <1>1, UniqueKept DEF IInv, RowsClipped
<1>3. \A r \in Sessions \ {s} : SessionOK(r)'
  BY <1>1, OthersOK DEF IInv
<1> QED
  BY <1>1, <1>2, <1>3

-----------------------------------------------------------------------------
(* What every step of a session gives. *)

SessionTypes ==
    /\ users \in Seq(Users)
    /\ pc \in [Sessions -> Gate \union LoggedIn \union {"off"}]
    /\ typed \in [Sessions -> [name : Names, secret : Secrets]]
    /\ id \in [Sessions -> Nat]
    /\ copy \in [Sessions -> Profiles]
    /\ form \in [Sessions -> Profiles]
    /\ stale \subseteq Sessions

AccountsOK ==
    /\ SessionTypes
    /\ UniqueNames /\ RowsClipped
    /\ \A s \in Sessions : SessionOK(s)

(* A quiet step. *)
LEMMA QuietOK ==
  ASSUME IInv, NEW s \in Sessions, Quiet(s)
  PROVE  AccountsOK'
<1>1. /\ users' = users /\ id' = id /\ copy' = copy /\ stale' = stale
      /\ Others(s)
      /\ pc' \in [Sessions -> Gate \union LoggedIn \union {"off"}]
      /\ typed' \in [Sessions -> [name : Names, secret : Secrets]]
      /\ form' \in [Sessions -> Profiles]
      /\ pc'[s] \in LoggedIn => pc[s] \in LoggedIn /\ typed'[s] = typed[s]
      /\ FormOK(s)'
  BY QuietEffect DEF IInv
<1>2. /\ RowsKept /\ UniqueNames' /\ RowsClipped' /\ SessionOK(s)
      /\ \A r \in Sessions \ {s} : SessionOK(r)'
  BY <1>1, ReadersOK DEF IInv
<1>3. Auth(s)'
  BY <1>1, <1>2, AuthKept DEF SessionOK
<1>4. Fresh(s)'
  BY <1>1, <1>2 DEF SessionOK, Fresh
<1>5. SessionTypes'
  BY <1>1 DEF IInv, TypeOK, SessionTypes
<1> QED
  BY <1>1, <1>2, <1>3, <1>4, <1>5 DEF AccountsOK, SessionOK

(* The end of a session. *)
LEMMA EndOK ==
  ASSUME IInv, NEW s \in Sessions, EndSession(s)
  PROVE  AccountsOK'
<1> USE DEF EndSession, Leave, Goto, ForgetTyped, ForgetForm
<1>1. SessionTypes' /\ Others(s) /\ users' = users /\ pc'[s] = "off"
  BY Nothing DEF IInv, TypeOK, SessionTypes, Others
<1>2. /\ UniqueNames' /\ RowsClipped'
      /\ \A r \in Sessions \ {s} : SessionOK(r)'
  BY <1>1, ReadersOK
<1>3. SessionOK(s)'
  BY <1>1 DEF SessionOK, Auth, Fresh, FormOK, LoggedIn
<1> QED
  BY <1>1, <1>2, <1>3 DEF AccountsOK

(* A login. *)
LEMMA LookupOK ==
  ASSUME IInv, NEW s \in Sessions, NEW i \in DOMAIN users, LookupCorrect(s, i)
  PROVE  AccountsOK'
<1> USE DEF LookupCorrect, BecomeUser, Go, Goto
<1>0. users \in Seq(Users) /\ i \in Nat /\ users[i] \in Users
  BY ElementOfSeq, LenProperties DEF IInv, TypeOK
<1>1. users[i].profile \in Profiles
  BY <1>0 DEF Users
<1>2. SessionTypes' /\ Others(s) /\ users' = users
  BY <1>0, <1>1 DEF IInv, TypeOK, SessionTypes, Others, Gate, LoggedIn
<1>3. /\ UniqueNames' /\ RowsClipped'
      /\ \A r \in Sessions \ {s} : SessionOK(r)'
  BY <1>2, ReadersOK
<1>4. /\ pc'[s] = "stamp" /\ id'[s] = i /\ typed'[s] = typed[s]
      /\ copy'[s] = users[i].profile
  BY <1>0, <1>1 DEF IInv, TypeOK
<1>5. Auth(s)'
  BY <1>2, <1>4 DEF Auth, Named
<1>6. Fresh(s)'
  BY <1>2, <1>4 DEF Fresh, IInv, RowsClipped
<1>7. FormOK(s)'
  BY <1>4 DEF FormOK
<1> QED
  BY <1>2, <1>3, <1>5, <1>6, <1>7 DEF AccountsOK, SessionOK

(* A registration: the new row is the last one. *)
LEMMA CreateOK ==
  ASSUME IInv, NEW s \in Sessions, CreateUser(s)
  PROVE  AccountsOK'
<1> USE DEF CreateUser, BecomeUser, Go, Goto, ForgetForm
<1>0. PICK n : n = NewUser(s)
  OBVIOUS
<1>1. n \in Users /\ n.name = typed[s].name /\ n.secret = typed[s].secret
      /\ n.profile = form[s]
  BY <1>0 DEF IInv, TypeOK, NewUser, Users
<1>2. users \in Seq(Users) /\ users' = Append(users, n)
  BY <1>0 DEF IInv, TypeOK
<1>3. /\ users' \in Seq(Users) /\ Len(users) \in Nat
      /\ DOMAIN users = 1 .. Len(users)
      /\ DOMAIN users' = 1 .. (Len(users) + 1)
      /\ \A i \in DOMAIN users : users'[i] = users[i]
      /\ users'[Len(users) + 1] = n
  BY <1>1, <1>2, AppendProperties, LenProperties
<1>4. PICK k : k = Len(users) + 1
  OBVIOUS
<1>5. /\ k \in Nat /\ k \notin DOMAIN users
      /\ DOMAIN users' = DOMAIN users \union {k}
  BY <1>3, <1>4
<1>6. /\ SessionTypes' /\ Others(s) /\ stale' = stale \ {s}
      /\ pc'[s] = "stamp" /\ id'[s] = k /\ typed'[s] = typed[s]
      /\ copy'[s] = form[s]
  BY Nothing, <1>3, <1>4, <1>5
     DEF IInv, TypeOK, SessionTypes, Others, Gate, LoggedIn
<1>7. RowsKept
  BY <1>3, <1>5 DEF RowsKept
<1>8. \A r \in Sessions \ {s} : SessionOK(r)'
  <2> SUFFICES ASSUME NEW r \in Sessions \ {s} PROVE SessionOK(r)'
    OBVIOUS
  <2>1. SessionOK(r)
    BY DEF IInv
  <2>2. pc[r] \in LoggedIn => users'[id[r]].profile = users[id[r]].profile
    BY <1>3, <2>1 DEF SessionOK, Auth, Named
  <2> QED
    BY <1>6, <1>7, <2>1, <2>2, OthersOK
<1>9. SessionOK(s)'
  <2>1. Clipped(form[s]) = form[s]
    BY DEF IInv, SessionOK, FormOK
  <2>2. Auth(s)'
    BY <1>1, <1>3, <1>4, <1>5, <1>6 DEF Auth, Named
  <2>3. Fresh(s)' /\ FormOK(s)'
    BY <1>1, <1>3, <1>4, <1>6, <2>1 DEF Fresh, FormOK
  <2> QED
    BY <2>2, <2>3 DEF SessionOK
<1>10. UniqueNames'
  <2>1. \A i \in DOMAIN users : Fold[users[i].name] # Fold[n.name]
    BY <1>1 DEF Taken, Named
  <2> QED
    BY <1>3, <1>4, <1>5, <2>1 DEF UniqueNames, IInv
<1>11. RowsClipped'
  <2>1. Clipped(n.profile) = n.profile
    BY <1>1 DEF IInv, SessionOK, FormOK
  <2> QED
    BY <1>3, <1>4, <1>5, <2>1 DEF RowsClipped, IInv
<1> QED
  BY <1>6, <1>8, <1>9, <1>10, <1>11 DEF AccountsOK

(* The time of the login is noted. *)
LEMMA StampOK ==
  ASSUME IInv, NEW s \in Sessions, StampLogin(s)
  PROVE  AccountsOK'
<1> USE DEF StampLogin, Go, Goto
<1>0. SessionOK(s) /\ pc[s] = "stamp" /\ pc[s] \in LoggedIn
  BY DEF IInv, LoggedIn
<1>1. PICK i : i = id[s]
  OBVIOUS
<1>2. users \in Seq(Users) /\ i \in DOMAIN users /\ users[i] \in Users
  BY <1>0, <1>1, ElementOfSeq, LenProperties
     DEF IInv, TypeOK, SessionOK, Auth, Named
<1>3. PICK e : e = [users[i] EXCEPT !.stamped = TRUE]
  OBVIOUS
<1>4. /\ e \in Users /\ e.name = users[i].name /\ e.secret = users[i].secret
      /\ e.profile = users[i].profile
  BY <1>2, <1>3 DEF Users
<1>5. users' = [users EXCEPT ![i] = e]
  BY <1>1, <1>2, <1>3
<1>6. /\ users' \in Seq(Users) /\ DOMAIN users' = DOMAIN users
      /\ users'[i] = e
      /\ \A j \in DOMAIN users \ {i} : users'[j] = users[j]
  <2> HIDE DEF StampLogin
  <2> QED
    BY <1>2, <1>4, <1>5, RowChanged
<1>7. RowsKept /\ \A j \in DOMAIN users : users'[j].profile = users[j].profile
  BY <1>4, <1>6 DEF RowsKept
<1>8. /\ SessionTypes' /\ Others(s) /\ stale' = stale /\ pc'[s] = "menu"
      /\ typed' = typed /\ id' = id /\ copy' = copy
  BY <1>6 DEF IInv, TypeOK, SessionTypes, Others, Gate, LoggedIn
<1>9. ASSUME NEW r \in Sessions \ {s} PROVE SessionOK(r)'
  <2>1. SessionOK(r)
    BY DEF IInv
  <2>2. pc[r] \in LoggedIn => users'[id[r]].profile = users[id[r]].profile
    BY <1>7, <2>1 DEF SessionOK, Auth, Named
  <2> QED
    BY <1>7, <1>8, <2>1, <2>2, OthersOK
<1>10. SessionOK(s)'
  <2>1. Auth(s)'
    BY <1>0, <1>7, <1>8, AuthKept DEF SessionOK
  <2>2. Fresh(s)' /\ FormOK(s)'
    BY <1>0, <1>1, <1>2, <1>7, <1>8 DEF SessionOK, Fresh, FormOK
  <2> QED
    BY <2>1, <2>2 DEF SessionOK
<1>11. UniqueNames' /\ RowsClipped'
  BY <1>6, <1>7, UniqueKept DEF RowsClipped, IInv
<1> QED
  BY <1>8, <1>9, <1>10, <1>11 DEF AccountsOK

(* An edit of a profile is a profile. *)
LEMMA EditedType ==
  ASSUME TypeOK, NEW s \in Sessions
  PROVE  Edited(s) \in Profiles
BY DEF TypeOK, Edited, Profiles

(* A profile is saved: the sessions of the same user become stale. *)
LEMMA SaveOK ==
  ASSUME IInv, NEW s \in Sessions, SaveProfile(s)
  PROVE  AccountsOK'
<1> USE DEF SaveProfile, Go, Goto, ForgetForm
<1>0. SessionOK(s) /\ pc[s] = "save" /\ pc[s] \in LoggedIn
  BY DEF IInv, LoggedIn
<1>1. PICK i, p : i = id[s] /\ p = Edited(s)
  OBVIOUS
<1>2. users \in Seq(Users) /\ i \in DOMAIN users /\ users[i] \in Users
  BY <1>1, ElementOfSeq, LenProperties DEF IInv, TypeOK
<1>3. /\ p \in Profiles /\ Clipped(p) \in Profiles
      /\ Clipped(Clipped(p)) = Clipped(p)
  BY <1>1, EditedType, ClipTwice DEF IInv
<1>4. PICK e : e = [users[i] EXCEPT !.profile = Clipped(p)]
  OBVIOUS
<1>5. /\ e \in Users /\ e.name = users[i].name /\ e.secret = users[i].secret
      /\ e.profile = Clipped(p)
  BY <1>2, <1>3, <1>4 DEF Users
<1>6. users' = [users EXCEPT ![i] = e]
  BY <1>1, <1>2, <1>4
<1>7. /\ users' \in Seq(Users) /\ DOMAIN users' = DOMAIN users
      /\ users'[i] = e
      /\ \A j \in DOMAIN users \ {i} : users'[j] = users[j]
  BY <1>2, <1>5, <1>6, RowChanged
<1>8. RowsKept
  BY <1>5, <1>7 DEF RowsKept
<1>9. copy' = [copy EXCEPT ![s] = p] /\ stale' \subseteq Sessions
  BY <1>1 DEF IInv, TypeOK
<1>10. /\ SessionTypes' /\ Others(s) /\ pc'[s] = "menu"
       /\ typed' = typed /\ id' = id /\ copy'[s] = p
  BY Nothing, <1>3, <1>7, <1>9
     DEF IInv, TypeOK, SessionTypes, Others, Gate, LoggedIn
<1>11. ASSUME NEW r \in Sessions \ {s} PROVE SessionOK(r)'
  <2>1. SessionOK(r)
    BY DEF IInv
  <2>2. ASSUME pc[r] \in LoggedIn, r \notin stale'
        PROVE  r \notin stale /\ users'[id[r]].profile = users[id[r]].profile
    <3>1. id[r] # i /\ r \notin stale
      BY <1>1, <2>2
    <3>2. id[r] \in DOMAIN users
      BY <2>1, <2>2 DEF SessionOK, Auth, Named
    <3> QED
      BY <1>7, <3>1, <3>2
  <2> QED
    BY <1>8, <1>10, <2>1, <2>2, OthersOK
<1>12. SessionOK(s)'
  <2>1. Auth(s)'
    BY <1>0, <1>8, <1>10, AuthKept DEF SessionOK
  <2>2. Fresh(s)' /\ FormOK(s)'
    BY <1>1, <1>5, <1>7, <1>10 DEF Fresh, FormOK
  <2> QED
    BY <2>1, <2>2 DEF SessionOK
<1>13. UniqueNames'
  BY <1>7, <1>8, UniqueKept DEF IInv
<1>14. RowsClipped'
  BY <1>3, <1>5, <1>7 DEF RowsClipped, IInv
<1> QED
  BY <1>10, <1>11, <1>12, <1>13, <1>14 DEF AccountsOK

(* The process stops. *)
LEMMA CrashOK ==
  ASSUME IInv, Crash
  PROVE  AccountsOK'
<1>1. /\ users' = users
      /\ pc' = [s \in Sessions |-> "off"] /\ stale' = {}
      /\ typed' = [s \in Sessions |-> NoTyped]
      /\ id' = [s \in Sessions |-> 0]
      /\ copy' = [s \in Sessions |-> NoProfile]
      /\ form' = [s \in Sessions |-> NoProfile]
  BY DEF Crash
<1>2. SessionTypes'
  BY <1>1, Nothing DEF IInv, TypeOK, SessionTypes
<1>3. ASSUME NEW s \in Sessions PROVE SessionOK(s)'
  BY <1>1 DEF SessionOK, Auth, Fresh, FormOK, LoggedIn
<1>4. UniqueNames' /\ RowsClipped'
  BY <1>1 DEF UniqueNames, RowsClipped, IInv
<1> QED
  BY <1>2, <1>3, <1>4 DEF AccountsOK

-----------------------------------------------------------------------------
(* The inductive invariant. *)

(* It holds at the start. *)
LEMMA InitIInv == Init => IInv
<1> SUFFICES ASSUME Init PROVE IInv
  OBVIOUS
<1>1. FileOK /\ MigrationTypeOK
  BY FileInit DEF Init, FileOK
<1>2. users = <<>> \/ \E n \in Names, p \in Secrets : users = <<OldUser(n, p)>>
  BY DEF Init
<1>3. /\ users \in Seq(Users) /\ DOMAIN users \subseteq {1}
      /\ \A i \in DOMAIN users : users[i].profile = NoProfile
  <2>1. CASE users = <<>>
    BY <2>1
  <2>2. ASSUME NEW n \in Names, NEW p \in Secrets, users = <<OldUser(n, p)>>
        PROVE  /\ users \in Seq(Users) /\ DOMAIN users \subseteq {1}
               /\ \A i \in DOMAIN users : users[i].profile = NoProfile
    <3>1. OldUser(n, p) \in Users /\ OldUser(n, p).profile = NoProfile
      BY Nothing DEF OldUser, Users
    <3>2. PICK u : u = OldUser(n, p)
      OBVIOUS
    <3> QED
      BY <2>2, <3>1, <3>2
  <2> QED
    BY <1>2, <2>1, <2>2
<1>4. UniqueNames
  BY <1>3 DEF UniqueNames
<1>5. RowsClipped
  BY <1>3, AccountsAssumption DEF RowsClipped, Clipped, NoProfile
<1>6. TypeOK
  BY <1>1, <1>3, Nothing DEF TypeOK, Init, NobodyCalls
<1>7. \A s \in Sessions : SessionOK(s)
  BY DEF Init, NobodyCalls, SessionOK, Auth, Fresh, FormOK, LoggedIn
<1> QED
  BY <1>1, <1>4, <1>5, <1>6, <1>7 DEF IInv

(* Nothing that it reads has changed. *)
LEMMA SameAccounts ==
  ASSUME IInv, UNCHANGED accountVars
  PROVE  AccountsOK'
<1>1. /\ users' = users /\ pc' = pc /\ typed' = typed /\ form' = form
      /\ id' = id /\ copy' = copy /\ stale' = stale
  BY DEF accountVars, formVars
<1> QED
  BY <1>1 DEF IInv, AccountsOK, TypeOK, SessionTypes, UniqueNames, RowsClipped,
              SessionOK, Auth, Fresh, FormOK, Named

(* Every step keeps it: those of the file, of a session, and a crash. *)
LEMMA NextIInv == IInv /\ [Next]_vars => IInv'
<1> SUFFICES ASSUME IInv, [Next]_vars PROVE IInv'
  OBVIOUS
<1>1. FileOK'
  BY FileStep DEF IInv, Next, Crash, vars
<1>2. AccountsOK'
  <2>1. CASE UNCHANGED accountVars
    BY <2>1, SameAccounts
  <2>2. ASSUME NEW s \in Sessions, SessionStep(s) PROVE AccountsOK'
    BY <2>2, StepKinds, QuietOK, EndOK, LookupOK, CreateOK, StampOK, SaveOK
  <2>3. CASE Crash
    BY <2>3, CrashOK
  <2> QED
    BY <2>1, <2>2, <2>3 DEF Next, vars
<1> QED
  BY <1>1, <1>2 DEF IInv, FileOK, AccountsOK, SessionTypes, TypeOK

(* It is an invariant of the specification. *)
LEMMA Invariant == Spec => []IInv
<1> QED
  BY InitIInv, NextIInv, PTL DEF Spec

(* Its parts are the properties that the runs check. *)
LEMMA Parts ==
  IInv => TypeOK /\ UniqueNames /\ Authenticated /\ CopyFresh /\ ServingHasSchema
<1> SUFFICES ASSUME IInv
             PROVE  TypeOK /\ UniqueNames /\ Authenticated /\ CopyFresh
                    /\ ServingHasSchema
  OBVIOUS
<1>1. TypeOK /\ UniqueNames
  BY DEF IInv
<1>2. Authenticated /\ CopyFresh
  BY DEF IInv, SessionOK, Auth, Fresh, Authenticated, CopyFresh
<1>3. ServingHasSchema
  <2> SUFFICES ASSUME opening = "serving" PROVE version = 2 /\ tables /\ lastLogin
    BY DEF ServingHasSchema
  <2>1. version = 2
    BY DEF IInv, FileOK
  <2>2. version # 0
    BY <2>1
  <2> QED
    BY Zenon, <2>1, <2>2 DEF IInv, FileOK
<1> QED
  BY <1>1, <1>2, <1>3

(***************************************************************************)
(* The variables keep their types.                                         *)
(***************************************************************************)
THEOREM AccountsTypes == Spec => []TypeOK
BY Invariant, Parts, PTL

(***************************************************************************)
(* No two users have names that differ in case only, whichever sessions    *)
(* register at the same time (registerFlow, CreateUser).                   *)
(***************************************************************************)
THEOREM AccountsUniqueNames == Spec => []UniqueNames
BY Invariant, Parts, PTL

(***************************************************************************)
(* Every session that is logged in acts for a user whose name and password *)
(* its caller typed (loginFlow, registerFlow).                             *)
(***************************************************************************)
THEOREM AccountsAuthenticated == Spec => []Authenticated
BY Invariant, Parts, PTL

(***************************************************************************)
(* A session's copy of the profile is what the table has, unless another   *)
(* session of that user saved since (editProfile).                         *)
(***************************************************************************)
THEOREM AccountsCopyFresh == Spec => []CopyFresh
BY Invariant, Parts, PTL

(***************************************************************************)
(* A server that serves has the whole schema, after any number of openings *)
(* that failed or died on the way (Open, migrate).                         *)
(***************************************************************************)
THEOREM ServingSchema == Spec => []ServingHasSchema
BY Invariant, Parts, PTL
=============================================================================
