------------------------------ MODULE Accounts ------------------------------
(***************************************************************************)
(* User accounts: the gate, login and registration (internal/server/       *)
(* front_gate.go, login.go), the profile (profile.go) and the table users  *)
(* (internal/store/users.go), on a file that Migration opens.              *)
(*                                                                         *)
(* Each statement of the store commits on its own, so between two of them  *)
(* other sessions act and the process may die.  A session keeps a copy of  *)
(* its user, read at login, for as long as it lasts.  Of times there is    *)
(* only whether a user has ever been stamped.                              *)
(***************************************************************************)
EXTENDS Migration, Sequences

CONSTANTS Sessions,
          Names,        (* user names that isValidUsername accepts         *)
          Fold,         (* name -> name without case (COLLATE NOCASE)      *)
          Secrets,      (* passwords of four characters or more            *)
          Fields,       (* the fields of a profile: location and bio       *)
          Texts,        (* what a field may hold                           *)
          Blank,        (* the empty text                                  *)
          Clip,         (* text -> clip of it, the same when clipped again *)
          MaxUsers      (* bound: rows of users                            *)

ASSUME AccountsAssumption ==
    /\ Blank \in Texts
    /\ Clip \in [Texts -> Texts] /\ Clip[Blank] = Blank
    /\ \A t \in Texts : Clip[Clip[t]] = Clip[t]
    /\ Names # {} /\ Secrets # {}
    /\ MaxUsers \in Nat

VARIABLES users,     (* the committed rows of users                        *)
          pc,        (* per session, where run is                          *)
          typed,     (* per session, the name and password typed; kept, as *)
                     (* history, for a session that is logged in           *)
          id,        (* per session, s.user.ID, 0 without a user           *)
          copy,      (* per session, s.user.Location and s.user.Bio        *)
          form,      (* per session, the profile typed                     *)
          stale      (* history: sessions whose user another one edited    *)

formVars == <<typed, form>>
accountVars == <<users, pc, formVars, id, copy, stale>>
vars == <<migrationVars, accountVars>>

Profiles == [Fields -> Texts]
Users    == [name : Names, secret : Secrets, stamped : BOOLEAN,
             profile : Profiles]

Gate     == {"gate", "login", "lookup", "unknown",
             "register", "check", "details", "create"}
LoggedIn == {"stamp", "menu", "save"}

TypeOK ==
    /\ MigrationTypeOK
    /\ users \in Seq(Users)
    /\ pc \in [Sessions -> Gate \union LoggedIn \union {"off"}]
    /\ typed \in [Sessions -> [name : Names, secret : Secrets]]
    /\ id \in [Sessions -> Nat]
    /\ copy \in [Sessions -> Profiles]
    /\ form \in [Sessions -> Profiles]
    /\ stale \subseteq Sessions

NoProfile == [f \in Fields |-> Blank]
NoTyped   == CHOOSE t \in [name : Names, secret : Secrets] : TRUE

(* An older program may have left a user. *)
OldUser(n, p) ==
    [name |-> n, secret |-> p, stamped |-> FALSE, profile |-> NoProfile]

NobodyCalls ==
    /\ pc = [s \in Sessions |-> "off"]
    /\ typed = [s \in Sessions |-> NoTyped]
    /\ id = [s \in Sessions |-> 0]
    /\ copy = [s \in Sessions |-> NoProfile]
    /\ form = [s \in Sessions |-> NoProfile]
    /\ stale = {}

Init ==
    /\ MigrationInit
    /\ \/ users = <<>>
       \/ version > 0 /\ \E n \in Names, p \in Secrets : users = <<OldUser(n, p)>>
    /\ NobodyCalls

Goto(s, to) == pc' = [pc EXCEPT ![s] = to]
Go(s, from, to) == opening = "serving" /\ pc[s] = from /\ Goto(s, to)

(* The locals of a function that returns are reset. *)
ForgetTyped(s) == typed' = [typed EXCEPT ![s] = NoTyped]
ForgetForm(s)  == form' = [form EXCEPT ![s] = NoProfile]

Leave(s) ==
    /\ opening = "serving"
    /\ ForgetTyped(s) /\ ForgetForm(s)
    /\ id' = [id EXCEPT ![s] = 0]
    /\ copy' = [copy EXCEPT ![s] = NoProfile]
    /\ stale' = stale \ {s}

-----------------------------------------------------------------------------
(* UserByUsername, with the collation of the column. *)
Named(n) == {i \in DOMAIN users : Fold[users[i].name] = Fold[n]}

-----------------------------------------------------------------------------
(* The gate and loginFlow. *)

Connect(s) ==
    /\ Go(s, "off", "gate")
    /\ UNCHANGED <<users, formVars, id, copy, stale>>

GateKey(s) ==
    /\ Go(s, "gate", "login") \/ Go(s, "gate", "register")
    /\ UNCHANGED <<users, formVars, id, copy, stale>>

TypeLogin(s, n, p) ==
    /\ Go(s, "login", "lookup")
    /\ typed' = [typed EXCEPT ![s] = [name |-> n, secret |-> p]]
    /\ UNCHANGED <<users, form, id, copy, stale>>

(* An empty user name leads back to the gate. *)
GiveUpLogin(s) ==
    /\ Go(s, "login", "gate")
    /\ UNCHANGED <<users, formVars, id, copy, stale>>

LookupUnknown(s) ==
    /\ Go(s, "lookup", "unknown")
    /\ Named(typed[s].name) = {}
    /\ ForgetTyped(s)
    /\ UNCHANGED <<users, form, id, copy, stale>>

(* The keys C, T and Q after "doesn't exist". *)
UnknownKey(s) ==
    /\ Go(s, "unknown", "register") \/ Go(s, "unknown", "login")
    /\ UNCHANGED <<users, formVars, id, copy, stale>>

(* The password does not match, or the query failed. *)
LookupIncorrect(s) ==
    /\ Go(s, "lookup", "login")
    /\ ForgetTyped(s)
    /\ UNCHANGED <<users, form, id, copy, stale>>

(* Session s starts to act for user i, with a fresh copy of the row. *)
BecomeUser(s, i, profile) ==
    /\ id' = [id EXCEPT ![s] = i]
    /\ copy' = [copy EXCEPT ![s] = profile]
    /\ stale' = stale \ {s}

(* Mutant: a query that succeeds is enough. *)
LookupUnchecked(s, i) ==
    /\ Go(s, "lookup", "stamp")
    /\ i \in Named(typed[s].name)
    /\ BecomeUser(s, i, users[i].profile)
    /\ UNCHANGED <<users, typed, form>>

LookupCorrect(s, i) ==
    /\ Go(s, "lookup", "stamp")
    /\ i \in Named(typed[s].name)
    /\ users[i].secret = typed[s].secret
    /\ BecomeUser(s, i, users[i].profile)
    /\ UNCHANGED <<users, typed, form>>

-----------------------------------------------------------------------------
(* registerFlow. *)

(* A name that isValidUsername rejects, or a short password. *)
Rejected(s) ==
    /\ Go(s, "register", "gate") \/ Go(s, "details", "gate")
    /\ ForgetTyped(s)
    /\ UNCHANGED <<users, form, id, copy, stale>>

TypeName(s, n) ==
    /\ Go(s, "register", "check")
    /\ typed' = [typed EXCEPT ![s].name = n]
    /\ UNCHANGED <<users, form, id, copy, stale>>

(* The check that the name is free; a query that fails counts as free. *)
CheckTaken(s) ==
    /\ Go(s, "check", "gate")
    /\ Named(typed[s].name) # {}
    /\ ForgetTyped(s)
    /\ UNCHANGED <<users, form, id, copy, stale>>

CheckFree(s) ==
    /\ Go(s, "check", "details")
    /\ UNCHANGED <<users, formVars, id, copy, stale>>

Clipped(profile) == [f \in Fields |-> Clip[profile[f]]]

TypeDetails(s, p, profile) ==
    /\ Go(s, "details", "create")
    /\ typed' = [typed EXCEPT ![s].secret = p]
    /\ form' = [form EXCEPT ![s] = Clipped(profile)]
    /\ UNCHANGED <<users, id, copy, stale>>

NewUser(s) == [name |-> typed[s].name, secret |-> typed[s].secret,
               stamped |-> FALSE, profile |-> form[s]]

(* Mutant: the unique index compares names with their case. *)
TakenExactly(n) == \E i \in DOMAIN users : users[i].name = n

(* The unique index on username, COLLATE NOCASE. *)
Taken(n) == Named(n) # {}

CreateUser(s) ==
    /\ Go(s, "create", "stamp")
    /\ ~Taken(typed[s].name)
    /\ Len(users) < MaxUsers
    /\ users' = Append(users, NewUser(s))
    /\ BecomeUser(s, Len(users) + 1, form[s])
    /\ ForgetForm(s)
    /\ UNCHANGED <<typed>>

(* ErrUserExists, or any other error. *)
CreateFails(s) ==
    /\ Go(s, "create", "gate")
    /\ ForgetTyped(s) /\ ForgetForm(s)
    /\ UNCHANGED <<users, id, copy, stale>>

-----------------------------------------------------------------------------
(* stampLogin: its error is shown, and the session goes on. *)

StampLogin(s) ==
    /\ Go(s, "stamp", "menu")
    /\ users' = [users EXCEPT ![id[s]].stamped = TRUE]
    /\ UNCHANGED <<typed, form, id, copy, stale>>

StampFails(s) ==
    /\ Go(s, "stamp", "menu")
    /\ UNCHANGED <<users, typed, form, id, copy, stale>>

-----------------------------------------------------------------------------
(* profile and editProfile. *)

TypeProfile(s, profile) ==
    /\ Go(s, "menu", "save")
    /\ form' = [form EXCEPT ![s] = profile]
    /\ UNCHANGED <<users, typed, id, copy, stale>>

(* "Press Enter to keep the current value": that of the session's copy. *)
Edited(s) ==
    [f \in Fields |-> IF form[s][f] = Blank THEN copy[s][f] ELSE form[s][f]]

(* UpdateProfile clips both fields; the session's copy is not clipped. *)
SaveProfile(s) ==
    /\ Go(s, "save", "menu")
    /\ id[s] \in DOMAIN users
    /\ users' = [users EXCEPT ![id[s]].profile = Clipped(Edited(s))]
    /\ copy' = [copy EXCEPT ![s] = Edited(s)]
    /\ stale' = (stale \ {s}) \union
                {r \in Sessions \ {s} : pc[r] \in LoggedIn /\ id[r] = id[s]}
    /\ ForgetForm(s)
    /\ UNCHANGED <<typed, id>>

(* Mutant: the copy is changed although the database was not. *)
SaveFailsKept(s) ==
    /\ Go(s, "save", "menu")
    /\ copy' = [copy EXCEPT ![s] = Edited(s)]
    /\ ForgetForm(s)
    /\ UNCHANGED <<users, typed, id, stale>>

SaveFails(s) ==
    /\ Go(s, "save", "menu")
    /\ ForgetForm(s)
    /\ UNCHANGED <<users, typed, id, copy, stale>>

-----------------------------------------------------------------------------
(* Log off, Ctrl-C, Ctrl-D, a dead link: run returns. *)
EndSession(s) ==
    /\ pc[s] \notin {"off", "lookup", "check", "create", "stamp", "save"}
    /\ Goto(s, "off")
    /\ Leave(s)
    /\ UNCHANGED users

(* The process stops; the sessions go with it. *)
Crash ==
    /\ StopProcess
    /\ pc' = [s \in Sessions |-> "off"]
    /\ typed' = [s \in Sessions |-> NoTyped]
    /\ id' = [s \in Sessions |-> 0]
    /\ copy' = [s \in Sessions |-> NoProfile]
    /\ form' = [s \in Sessions |-> NoProfile]
    /\ stale' = {}
    /\ UNCHANGED users

LoginStep(s) ==
    \/ Connect(s) \/ GateKey(s) \/ GiveUpLogin(s) \/ EndSession(s)
    \/ \E n \in Names, p \in Secrets : TypeLogin(s, n, p)
    \/ LookupUnknown(s) \/ UnknownKey(s) \/ LookupIncorrect(s)
    \/ \E i \in DOMAIN users : LookupCorrect(s, i)

RegisterStep(s) ==
    \/ Rejected(s) \/ CheckTaken(s) \/ CheckFree(s)
    \/ \E n \in Names : TypeName(s, n)
    \/ \E p \in Secrets, profile \in Profiles : TypeDetails(s, p, profile)
    \/ CreateUser(s) \/ CreateFails(s)

UserStep(s) ==
    \/ StampLogin(s) \/ StampFails(s)
    \/ \E profile \in Profiles : TypeProfile(s, profile)
    \/ SaveProfile(s) \/ SaveFails(s)

SessionStep(s) == LoginStep(s) \/ RegisterStep(s) \/ UserStep(s)

Next ==
    \/ MigrationStep /\ UNCHANGED accountVars
    \/ (\E s \in Sessions : SessionStep(s)) /\ UNCHANGED migrationVars
    \/ Crash

Spec == Init /\ [][Next]_vars

-----------------------------------------------------------------------------
(***************************************************************************)
(* Two registrations may both find a name free (registerFlow), yet no two  *)
(* users ever have names that differ in case only (CreateUser).            *)
(***************************************************************************)
UniqueNames ==
    \A i, j \in DOMAIN users :
        Fold[users[i].name] = Fold[users[j].name] => i = j

(***************************************************************************)
(* A session acts only for a user whose name and password its caller has   *)
(* typed, at login or at registration, whatever was created meanwhile.     *)
(***************************************************************************)
Authenticated ==
    \A s \in Sessions :
        pc[s] \in LoggedIn =>
            /\ id[s] \in Named(typed[s].name)
            /\ users[id[s]].secret = typed[s].secret

(***************************************************************************)
(* Unless another session of the same user has saved a profile since, a    *)
(* session's copy of the profile is, once clipped, what the table has; so  *)
(* what an edit keeps is then what is there (editProfile).                 *)
(***************************************************************************)
CopyFresh ==
    \A s \in Sessions :
        pc[s] \in LoggedIn /\ s \notin stale =>
            users[id[s]].profile = Clipped(copy[s])

(***************************************************************************)
(* "Press Enter to keep the current value" (profile.go:80): a field that   *)
(* is left blank keeps the value that the table has.                       *)
(***************************************************************************)
BlankKeeps ==
    [][\A s \in Sessions :
         SaveProfile(s) =>
            \A f \in Fields :
                form[s][f] = Blank =>
                    users'[id[s]].profile[f] = users[id[s]].profile[f]]_vars
=============================================================================
