--------------------------- MODULE SessionProofs ---------------------------
(* Theorems about the session, for any servers, names and processes, and   *)
(* any number of logins.                                                   *)
EXTENDS Session, TLAPS

(* Where a token is held, it was issued by the server it is held for.      *)
IssuedBy(server, t) == t \in DOMAIN owner /\ owner[t].server = server

FromServer(snap) ==
    \A a \in {snap.user, snap.marks} \ {None} : a.server = snap.server

ProcAtHome(k) ==
    /\ k.cmd = "login" => k.token \in DOMAIN owner /\ owner[k.token] = k.as
    /\ k.cmd = "logout" /\ k.token # None => IssuedBy(k.cfg.server, k.token)
    /\ k.cmd = "reader" => /\ IssuedBy(k.server, k.token)
                           /\ k.snap.server = k.server
                           /\ FromServer(k.snap)

Inv ==
    /\ TypeOK
    /\ creds # None => IssuedBy(creds.server, creds.token)
    /\ FromServer(cache)
    /\ \A p \in Procs : ProcAtHome(proc[p])

Procedure == Reader \cup Command \cup {Idle}

-----------------------------------------------------------------------------
(* What another process notes of a write leaves what it holds alone.       *)
LEMMA CrossKeeps ==
  ASSUME TypeOK, NEW p \in Procs
  PROVE  /\ Cross(p, proc) \in [Procs -> Procedure]
         /\ Cross(p, proc)[p] = proc[p]
         /\ \A q \in Procs : ProcAtHome(proc[q]) => ProcAtHome(Cross(p, proc)[q])
<1>1. ASSUME NEW q \in Procs
      PROVE  /\ Cross(p, proc)[q] \in Procedure
             /\ ProcAtHome(proc[q]) => ProcAtHome(Cross(p, proc)[q])
  <2> DEFINE k == proc[q]
             j == [k EXCEPT !.crossed = TRUE]
  <2>1. k \in Procedure
    BY DEF TypeOK, Procedure
  <2>2. CASE q # p /\ k.cmd \in {"login", "logout"}
    <3>1. Cross(p, proc)[q] = j
      BY <2>2 DEF Cross
    <3>2. j \in Procedure
      BY <2>1, <2>2 DEF Procedure, Reader, Command, Idle
    <3>3. j.cmd = k.cmd /\ j.token = k.token
      BY <2>1, <2>2 DEF Procedure, Reader, Command, Idle
    <3>4. k.cmd = "login" => j.as = k.as
      BY <2>1, <2>2 DEF Procedure, Reader, Command, Idle
    <3>5. k.cmd = "logout" => j.cfg = k.cfg
      BY <2>1, <2>2 DEF Procedure, Reader, Command, Idle
    <3>6. QED
      BY <2>2, <3>1, <3>2, <3>3, <3>4, <3>5 DEF ProcAtHome
  <2>3. CASE ~(q # p /\ k.cmd \in {"login", "logout"})
    <3>1. Cross(p, proc)[q] = k
      BY <2>3 DEF Cross
    <3>2. QED
      BY <2>1, <3>1
  <2>4. QED
    BY <2>2, <2>3
<1>2. Cross(p, proc)[p] = proc[p]
  BY DEF Cross
<1>3. Cross(p, proc) \in [Procs -> Procedure]
  BY <1>1 DEF Cross
<1>4. QED
  BY <1>1, <1>2, <1>3

(* A step that leaves the tokens alone and gives p a k of its own, and the *)
(* others at most a note.                                                  *)
LEMMA StepKeeps ==
  ASSUME Inv, NEW p \in Procs, NEW k \in Procedure, ProcAtHome(k),
         \/ proc' = [proc EXCEPT ![p] = k]
         \/ proc' = [Cross(p, proc) EXCEPT ![p] = k],
         owner' = owner
  PROVE  /\ proc' \in [Procs -> Procedure]
         /\ \A q \in Procs : ProcAtHome(proc[q])'
<1>1. proc \in [Procs -> Procedure]
  BY DEF Inv, TypeOK, Procedure
<1>2. \A q \in Procs : ProcAtHome(proc[q])
  BY DEF Inv
<1>3. TypeOK
  BY DEF Inv
<1>4. PICK f \in [Procs -> Procedure] :
        /\ \A q \in Procs : ProcAtHome(f[q])
        /\ proc' = [f EXCEPT ![p] = k]
  <2>1. CASE proc' = [proc EXCEPT ![p] = k]
    BY <2>1, <1>1, <1>2
  <2>2. CASE proc' = [Cross(p, proc) EXCEPT ![p] = k]
    BY <2>2, <1>2, <1>3, CrossKeeps
  <2>3. QED
    BY <2>1, <2>2
<1>5. proc' \in [Procs -> Procedure]
  BY <1>4
<1>6. ASSUME NEW q \in Procs PROVE ProcAtHome(proc[q])'
  <2>1. ProcAtHome(proc'[q])
    BY <1>4
  <2>2. QED
    BY <2>1 DEF ProcAtHome, IssuedBy, FromServer
<1>7. QED
  BY <1>5, <1>6
-----------------------------------------------------------------------------
(* The next stage of a process: what it holds stays what it is.            *)
LEMMA StageOfLogin ==
  ASSUME NEW k \in Procedure, k.cmd = "login", ProcAtHome(k),
         NEW s \in {"save", "read", "note", "done"}
  PROVE  [k EXCEPT !.stage = s] \in Procedure /\ ProcAtHome([k EXCEPT !.stage = s])
<1> DEFINE j == [k EXCEPT !.stage = s]
<1>1. j \in Procedure
  BY DEF Procedure, Reader, Command, Idle
<1>2. j.cmd = "login" /\ j.token = k.token /\ j.as = k.as
  BY DEF Procedure, Reader, Command, Idle
<1>3. QED
  BY <1>1, <1>2 DEF ProcAtHome

LEMMA StageOfLogout ==
  ASSUME NEW k \in Procedure, k.cmd = "logout", ProcAtHome(k),
         NEW s \in {"revoke", "delete", "forget", "done"}
  PROVE  [k EXCEPT !.stage = s] \in Procedure /\ ProcAtHome([k EXCEPT !.stage = s])
<1> DEFINE j == [k EXCEPT !.stage = s]
<1>1. j \in Procedure
  BY DEF Procedure, Reader, Command, Idle
<1>2. j.cmd = "logout" /\ j.token = k.token /\ j.cfg = k.cfg
  BY DEF Procedure, Reader, Command, Idle
<1>3. QED
  BY <1>1, <1>2 DEF ProcAtHome

(* The types, but for the processes. *)
FilesOK ==
    /\ config \in Config /\ (config.server # None => config.user # None)
    /\ creds \in Creds
    /\ cache \in Cache
    /\ live \subseteq DOMAIN owner
    /\ owner \in Seq(Account) /\ Len(owner) <= MaxTokens
    /\ up \in BOOLEAN

LEMMA FilesInInv == Inv => FilesOK /\ proc \in [Procs -> Procedure]
  BY DEF Inv, TypeOK, FilesOK, Procedure

(* A step of one process, put together from its parts.                     *)
LEMMA Assemble ==
  ASSUME Inv, NEW p \in Procs, NEW k \in Procedure, ProcAtHome(k),
         \/ proc' = [proc EXCEPT ![p] = k]
         \/ proc' = [Cross(p, proc) EXCEPT ![p] = k],
         owner' = owner, FilesOK',
         (creds # None => IssuedBy(creds.server, creds.token))',
         FromServer(cache)'
  PROVE  Inv'
<1>1. /\ proc' \in [Procs -> Procedure]
      /\ \A q \in Procs : ProcAtHome(proc[q])'
  BY StepKeeps
<1>2. TypeOK'
  BY <1>1 DEF TypeOK, FilesOK, Procedure
<1>3. QED
  BY <1>1, <1>2 DEF Inv

-----------------------------------------------------------------------------
LEMMA LoginKeeps ==
  ASSUME Inv, NEW p \in Procs, NEW a \in Account, Login(p, a)
  PROVE  Inv'
<1> DEFINE k == [cmd |-> "login", stage |-> "save", as |-> a, cfg |-> config,
                 token |-> Len(owner) + 1, crossed |-> FALSE]
<1> USE SessionAssumption
<1>1. FilesOK /\ proc \in [Procs -> Procedure]
  BY FilesInInv
<1>2. /\ owner' \in Seq(Account) /\ Len(owner') = Len(owner) + 1
      /\ Len(owner) \in Nat /\ DOMAIN owner = 1..Len(owner)
      /\ DOMAIN owner' = 1..(Len(owner) + 1)
      /\ owner'[Len(owner) + 1] = a
      /\ \A t \in DOMAIN owner : t \in DOMAIN owner' /\ owner'[t] = owner[t]
  BY <1>1 DEF Login, FilesOK
<1>3. FilesOK'
  <2>1. live' \subseteq DOMAIN owner' /\ Len(owner') <= MaxTokens
    BY <1>1, <1>2 DEF Login, FilesOK
  <2>2. QED
    BY <1>1, <1>2, <2>1 DEF Login, FilesOK
<1>4. k \in Procedure
  <2>1. Len(owner) + 1 \in Tokens
    BY <1>1, <1>2 DEF Login, Tokens
  <2>2. QED
    BY <1>1, <2>1 DEF FilesOK, Procedure, Command
<1>5. \A q \in Procs : proc'[q] = proc[q] \/ proc'[q] = k
  BY <1>1 DEF Login
<1>6. proc' \in [Procs -> Procedure]
  BY <1>1, <1>4 DEF Login
<1>7. \A q \in Procs : ProcAtHome(proc[q])'
  <2> SUFFICES ASSUME NEW q \in Procs PROVE ProcAtHome(proc[q])'
    OBVIOUS
  <2>1. CASE proc'[q] = proc[q]
    <3>1. ProcAtHome(proc[q])
      BY DEF Inv
    <3>2. QED
      BY <1>2, <2>1, <3>1 DEF ProcAtHome, IssuedBy, FromServer
  <2>2. CASE proc'[q] = k
    BY <1>2, <2>2 DEF ProcAtHome
  <2>3. QED
    BY <1>5, <2>1, <2>2
<1>8. (creds # None => IssuedBy(creds.server, creds.token))' /\ FromServer(cache)'
  BY <1>2 DEF Inv, Login, IssuedBy, FromServer
<1>9. TypeOK'
  BY <1>3, <1>6 DEF TypeOK, FilesOK, Procedure
<1>10. QED
  BY <1>7, <1>8, <1>9 DEF Inv

LEMMA SaveCredentialsKeeps ==
  ASSUME Inv, NEW p \in Procs, SaveCredentials(p)
  PROVE  Inv'
<1> DEFINE k == [proc[p] EXCEPT !.stage = "read"]
<1>1. FilesOK /\ proc \in [Procs -> Procedure] /\ TypeOK /\ ProcAtHome(proc[p])
  BY FilesInInv DEF Inv
<1>2. proc[p].cmd = "login"
  BY DEF SaveCredentials
<1>3. k \in Procedure /\ ProcAtHome(k)
  BY <1>1, <1>2, StageOfLogin
<1>4. proc' = [Cross(p, proc) EXCEPT ![p] = k]
  <2>1. Cross(p, proc)[p] = proc[p]
    BY <1>1, CrossKeeps
  <2>2. QED
    BY <2>1 DEF SaveCredentials, Wrote
<1>5. proc[p].token \in Tokens /\ proc[p].as \in Account
  BY <1>1, <1>2 DEF Procedure, Reader, Command, Idle
<1>6. FilesOK'
  BY <1>1, <1>5 DEF SaveCredentials, FilesOK, Creds, Account, servers
<1>7. (creds # None => IssuedBy(creds.server, creds.token))' /\ FromServer(cache)'
  BY <1>1, <1>2 DEF Inv, SaveCredentials, ProcAtHome, IssuedBy, FromServer, servers
<1>8. owner' = owner
  BY DEF SaveCredentials, servers
<1>9. QED
  BY <1>3, <1>4, <1>6, <1>7, <1>8, Assemble
LEMMA ReadConfigKeeps ==
  ASSUME Inv, NEW p \in Procs, ReadConfig(p)
  PROVE  Inv'
<1> DEFINE k == [proc[p] EXCEPT !.stage = "note", !.cfg = config]
<1>1. FilesOK /\ proc \in [Procs -> Procedure] /\ ProcAtHome(proc[p])
  BY FilesInInv DEF Inv
<1>2. proc[p].cmd = "login" /\ proc[p] \in Procedure /\ config \in Config
  BY <1>1 DEF ReadConfig, FilesOK
<1>3. /\ k \in Procedure
      /\ k.cmd = "login" /\ k.token = proc[p].token /\ k.as = proc[p].as
  <2> DEFINE Logins == [cmd : {"login"}, stage : {"save", "read", "note", "done"},
                        as : Account, cfg : Config, token : Tokens,
                        crossed : BOOLEAN]
  <2>1. proc[p] \in Logins
    BY <1>2 DEF Procedure, Reader, Command, Idle
  <2>2. k \in Logins /\ k.token = proc[p].token /\ k.as = proc[p].as
    BY <1>2, <2>1
  <2>3. QED
    BY <2>2 DEF Procedure, Command
<1>4. ProcAtHome(k)
  BY <1>1, <1>2, <1>3 DEF ProcAtHome
<1>5. proc' = [proc EXCEPT ![p] = k]
  BY DEF ReadConfig
<1>6. owner' = owner /\ FilesOK'
  BY <1>1 DEF ReadConfig, servers, FilesOK
<1>7. (creds # None => IssuedBy(creds.server, creds.token))' /\ FromServer(cache)'
  BY DEF Inv, ReadConfig, IssuedBy, FromServer, servers
<1>8. QED
  BY <1>3, <1>4, <1>5, <1>6, <1>7, Assemble

LEMMA SaveConfigKeeps ==
  ASSUME Inv, NEW p \in Procs, SaveConfig(p)
  PROVE  Inv'
<1> DEFINE k == [proc[p] EXCEPT !.stage = "done"]
<1>1. FilesOK /\ proc \in [Procs -> Procedure] /\ TypeOK /\ ProcAtHome(proc[p])
  BY FilesInInv DEF Inv
<1>2. proc[p].cmd = "login" /\ proc[p] \in Procedure
  BY <1>1 DEF SaveConfig
<1>3. k \in Procedure /\ ProcAtHome(k)
  BY <1>1, <1>2, StageOfLogin
<1>4. proc' = [Cross(p, proc) EXCEPT ![p] = k]
  <2>1. Cross(p, proc)[p] = proc[p]
    BY <1>1, CrossKeeps
  <2>2. QED
    BY <2>1 DEF SaveConfig, Wrote
<1>5. owner' = owner /\ FilesOK'
  <2>1. proc[p].cfg \in Config /\ proc[p].as \in Account
    BY <1>2 DEF Procedure, Reader, Command, Idle
  <2>2. config' \in Config /\ config'.user \in Names
    BY <2>1 DEF SaveConfig, Config, Account
  <2>3. config'.user # None
    BY <2>2, SessionAssumption
  <2>4. QED
    BY <1>1, <2>2, <2>3 DEF SaveConfig, servers, FilesOK
<1>6. (creds # None => IssuedBy(creds.server, creds.token))' /\ FromServer(cache)'
  BY DEF Inv, SaveConfig, IssuedBy, FromServer, servers
<1>7. QED
  BY <1>3, <1>4, <1>5, <1>6, Assemble

-----------------------------------------------------------------------------
(* The token read from the file is one of the server it is asked for.      *)
LEMMA LoadIsHome ==
  ASSUME Inv, NEW s, Load(s) # None
  PROVE  IssuedBy(s, Load(s)) /\ Load(s) \in Tokens
<1>1. creds # None /\ creds.server = s /\ Load(s) = creds.token
  BY DEF Load
<1>2. QED
  BY <1>1, FilesInInv DEF Inv, FilesOK, Creds

LEMMA LogoutKeeps ==
  ASSUME Inv, NEW p \in Procs, Logout(p)
  PROVE  Inv'
<1> DEFINE k == [cmd |-> "logout", stage |-> "revoke", cfg |-> config,
                 token |-> Load(config.server), warned |-> FALSE,
                 crossed |-> FALSE]
<1>1. FilesOK
  BY FilesInInv
<1>2. Load(config.server) = None \/ IssuedBy(config.server, Load(config.server))
  BY LoadIsHome
<1>3. Load(config.server) \in Tokens \cup {None}
  BY LoadIsHome
<1>4. k \in Procedure
  BY <1>1, <1>3 DEF FilesOK, Procedure, Command
<1>5. ProcAtHome(k)
  BY <1>2 DEF ProcAtHome
<1>6. proc' = [proc EXCEPT ![p] = k] /\ owner' = owner /\ FilesOK'
  BY <1>1 DEF Logout, servers, FilesOK
<1>7. (creds # None => IssuedBy(creds.server, creds.token))' /\ FromServer(cache)'
  BY DEF Inv, Logout, IssuedBy, FromServer, servers
<1>8. QED
  BY <1>4, <1>5, <1>6, <1>7, Assemble

LEMMA RevokeKeeps ==
  ASSUME Inv, NEW p \in Procs, Revoke(p)
  PROVE  Inv'
<1> DEFINE w == proc[p].token # None /\ (~up \/ proc[p].token \notin live)
           k == [proc[p] EXCEPT !.stage = "delete", !.warned = w]
<1>1. FilesOK /\ proc \in [Procs -> Procedure] /\ ProcAtHome(proc[p])
  BY FilesInInv DEF Inv
<1>2. proc[p].cmd = "logout" /\ proc[p] \in Procedure
  BY <1>1 DEF Revoke
<1>3. w \in BOOLEAN
  OBVIOUS
<1>4. /\ k \in Procedure
      /\ k.cmd = "logout" /\ k.token = proc[p].token /\ k.cfg = proc[p].cfg
  <2> DEFINE Logouts == [cmd : {"logout"},
                         stage : {"revoke", "delete", "forget", "done"},
                         cfg : Config, token : Tokens \cup {None},
                         warned : BOOLEAN, crossed : BOOLEAN]
  <2> HIDE DEF w
  <2>1. proc[p] \in Logouts
    BY <1>2 DEF Procedure, Reader, Command, Idle
  <2>2. k \in Logouts /\ k.token = proc[p].token /\ k.cfg = proc[p].cfg
    BY <1>3, <2>1
  <2>3. QED
    BY <2>2 DEF Procedure, Command
<1>5. ProcAtHome(k)
  <2> HIDE DEF k
  <2>1. QED
    BY <1>1, <1>2, <1>4 DEF ProcAtHome
<1>6. proc' = [proc EXCEPT ![p] = k]
  BY DEF Revoke
<1>7. owner' = owner /\ live' \subseteq live
  BY DEF Revoke
<1>8. FilesOK'
  BY <1>1, <1>7 DEF Revoke, FilesOK
<1>9. (creds # None => IssuedBy(creds.server, creds.token))' /\ FromServer(cache)'
  BY DEF Inv, Revoke, IssuedBy, FromServer
<1>10. QED
  BY <1>4, <1>5, <1>6, <1>7, <1>8, <1>9, Assemble

LEMMA DeleteCredentialsKeeps ==
  ASSUME Inv, NEW p \in Procs, DeleteCredentials(p)
  PROVE  Inv'
<1> DEFINE k == [proc[p] EXCEPT !.stage = "forget"]
<1>1. FilesOK /\ proc \in [Procs -> Procedure] /\ TypeOK /\ ProcAtHome(proc[p])
  BY FilesInInv DEF Inv
<1>2. proc[p].cmd = "logout" /\ proc[p] \in Procedure
  BY <1>1 DEF DeleteCredentials
<1>3. k \in Procedure /\ ProcAtHome(k)
  BY <1>1, <1>2, StageOfLogout
<1>4. proc' = [Cross(p, proc) EXCEPT ![p] = k]
  <2>1. Cross(p, proc)[p] = proc[p]
    BY <1>1, CrossKeeps
  <2>2. QED
    BY <2>1 DEF DeleteCredentials, Wrote
<1>5. owner' = owner /\ FilesOK' /\ creds' = None /\ FromServer(cache)'
  BY <1>1 DEF Inv, DeleteCredentials, FilesOK, Creds, FromServer, servers
<1>6. QED
  BY <1>3, <1>4, <1>5, Assemble

LEMMA ForgetServerKeeps ==
  ASSUME Inv, NEW p \in Procs, ForgetServer(p)
  PROVE  Inv'
<1> DEFINE k == [proc[p] EXCEPT !.stage = "done"]
<1>1. FilesOK /\ proc \in [Procs -> Procedure] /\ TypeOK /\ ProcAtHome(proc[p])
  BY FilesInInv DEF Inv
<1>2. proc[p].cmd = "logout" /\ proc[p] \in Procedure
  BY <1>1 DEF ForgetServer
<1>3. k \in Procedure /\ ProcAtHome(k)
  BY <1>1, <1>2, StageOfLogout
<1>4. proc' = [Cross(p, proc) EXCEPT ![p] = k]
  <2>1. Cross(p, proc)[p] = proc[p]
    BY <1>1, CrossKeeps
  <2>2. QED
    BY <2>1 DEF ForgetServer, Wrote
<1>5. owner' = owner /\ FilesOK'
  <2>1. proc[p].cfg \in Config
    BY <1>2 DEF Procedure, Reader, Command, Idle
  <2>2. config' \in Config /\ config'.server = None
    BY <2>1 DEF ForgetServer, Config
  <2>3. QED
    BY <1>1, <2>2 DEF ForgetServer, servers, FilesOK
<1>6. (creds # None => IssuedBy(creds.server, creds.token))' /\ FromServer(cache)'
  BY DEF Inv, ForgetServer, IssuedBy, FromServer, servers
<1>7. QED
  BY <1>3, <1>4, <1>5, <1>6, Assemble

(* Steps that give p something that holds no token.                        *)
LEMMA NothingHeld ==
  ASSUME NEW k, k.cmd \notin {"login", "logout", "reader"}
  PROVE  ProcAtHome(k)
  BY DEF ProcAtHome

LEMMA FilesAlone ==
  ASSUME Inv, UNCHANGED <<creds, cache, owner>>
  PROVE  /\ (creds # None => IssuedBy(creds.server, creds.token))'
         /\ FromServer(cache)'
  BY DEF Inv, IssuedBy, FromServer

LEMMA LogoutLocalKeeps ==
  ASSUME Inv, NEW p \in Procs, LogoutLocal(p)
  PROVE  Inv'
<1> DEFINE k == [cmd |-> "local", stage |-> "note", cfg |-> config, name |-> None]
<1>1. FilesOK
  BY FilesInInv
<1>2. k \in Procedure /\ ProcAtHome(k)
  BY <1>1, NothingHeld DEF LogoutLocal, FilesOK, Procedure, Command
<1>3. FilesOK' /\ owner' = owner /\ proc' = [proc EXCEPT ![p] = k]
  BY <1>1 DEF LogoutLocal, FilesOK, servers
<1>4. QED
  BY <1>2, <1>3, FilesAlone, Assemble DEF LogoutLocal, servers

LEMMA LoginLocalKeeps ==
  ASSUME Inv, NEW p \in Procs, NEW n \in Names, LoginLocal(p, n)
  PROVE  Inv'
<1> DEFINE k == [cmd |-> "local", stage |-> "note", cfg |-> config, name |-> n]
<1>1. FilesOK
  BY FilesInInv
<1>2. k \in Procedure /\ ProcAtHome(k)
  BY <1>1, NothingHeld DEF LoginLocal, FilesOK, Procedure, Command
<1>3. FilesOK' /\ owner' = owner /\ proc' = [proc EXCEPT ![p] = k]
  BY <1>1 DEF LoginLocal, FilesOK, servers
<1>4. QED
  BY <1>2, <1>3, FilesAlone, Assemble DEF LoginLocal, servers

LEMMA SetUsernameKeeps ==
  ASSUME Inv, NEW p \in Procs, SetUsername(p)
  PROVE  Inv'
<1>1. FilesOK /\ proc \in [Procs -> Procedure]
  BY FilesInInv
<1>2. proc[p].cfg \in Config /\ proc[p].cfg.server = None
      /\ proc[p].name \in Names \cup {None}
  BY <1>1 DEF SetUsername, Procedure, Reader, Command, Idle
<1>3. config' \in Config /\ config'.server = None
  BY <1>2 DEF SetUsername, Config
<1>4. FilesOK' /\ owner' = owner
  BY <1>1, <1>3, SessionAssumption DEF SetUsername, FilesOK, servers
<1>5. Idle \in Procedure /\ ProcAtHome(Idle)
  BY NothingHeld DEF Procedure, Idle
<1>6. QED
  BY <1>4, <1>5, FilesAlone, Assemble DEF SetUsername, servers

LEMMA InitConfigKeeps ==
  ASSUME Inv, NEW p \in Procs, InitConfig(p)
  PROVE  Inv'
<1>1. FilesOK /\ proc \in [Procs -> Procedure] /\ TypeOK /\ ProcAtHome(proc[p])
  BY FilesInInv DEF Inv
<1>2. config' \in Config /\ config'.server = None
  BY DEF InitConfig, Config
<1>3. FilesOK' /\ owner' = owner
  BY <1>1, <1>2 DEF InitConfig, FilesOK, servers
<1>4. PICK k \in Procedure : /\ ProcAtHome(k)
                             /\ proc' = [Cross(p, proc) EXCEPT ![p] = k]
  <2>1. CASE proc' = Cross(p, proc)
    <3>1. proc' = [Cross(p, proc) EXCEPT ![p] = proc[p]]
      BY <1>1, <2>1, CrossKeeps
    <3>2. QED
      BY <1>1, <3>1
  <2>2. ASSUME NEW n \in Names, NEW k,
               k = [cmd |-> "local", stage |-> "note", cfg |-> config',
                    name |-> n]
        PROVE  k \in Procedure /\ ProcAtHome(k)
    BY <1>2, <2>2, NothingHeld DEF Procedure, Command
  <2>3. QED
    BY <2>1, <2>2 DEF InitConfig
<1>5. QED
  BY <1>3, <1>4, FilesAlone, Assemble DEF InitConfig, servers

LEMMA ExitKeeps ==
  ASSUME Inv, NEW p \in Procs, Exit(p)
  PROVE  Inv'
<1>1. FilesOK
  BY FilesInInv
<1>2. Idle \in Procedure /\ ProcAtHome(Idle)
  BY NothingHeld DEF Procedure, Idle
<1>3. FilesOK' /\ owner' = owner /\ proc' = [proc EXCEPT ![p] = Idle]
  BY <1>1 DEF Exit, End, FilesOK, servers
<1>4. QED
  BY <1>2, <1>3, FilesAlone, Assemble DEF Exit, servers

-----------------------------------------------------------------------------
LEMMA OpenKeeps ==
  ASSUME Inv, NEW p \in Procs, Open(p)
  PROVE  Inv'
<1> DEFINE snap == Snapshot(config.server)
           k == [cmd |-> "reader", stage |-> "me", server |-> config.server,
                 token |-> Load(config.server), snap |-> snap]
<1>1. FilesOK
  BY FilesInInv
<1>2. /\ IssuedBy(config.server, Load(config.server))
      /\ Load(config.server) \in Tokens
  BY LoadIsHome DEF Open
<1>3. config.server \in Servers
  BY <1>1 DEF Open, FilesOK, Config
<1>4. snap \in Cache /\ snap.server = config.server /\ FromServer(snap)
  BY <1>1, <1>3 DEF Snapshot, FilesOK, Cache, NoFile, FromServer, Inv
<1>5. k \in Procedure
  BY <1>2, <1>3, <1>4 DEF Procedure, Reader
<1>6. ProcAtHome(k)
  BY <1>2, <1>4 DEF ProcAtHome
<1>7. FilesOK' /\ owner' = owner /\ proc' = [proc EXCEPT ![p] = k]
  BY <1>1 DEF Open, FilesOK, servers
<1>8. QED
  BY <1>5, <1>6, <1>7, FilesAlone, Assemble DEF Open, servers

(* What the account's own server said is of the server of the snapshot.    *)
LEMMA AnsweredKeeps ==
  ASSUME Inv, NEW p \in Procs, proc[p].cmd = "reader",
         NEW snap, Answered(p, snap),
         \/ snap = [proc[p].snap EXCEPT !.user = Me(p)]
         \/ snap = [proc[p].snap EXCEPT !.marks = Me(p)]
  PROVE  Inv'
<1> DEFINE k == [proc[p] EXCEPT !.stage = "reading", !.snap = snap]
<1>1. FilesOK /\ proc \in [Procs -> Procedure] /\ ProcAtHome(proc[p])
  BY FilesInInv DEF Inv
<1>2. proc[p] \in Reader
  BY <1>1 DEF Procedure, Reader, Command, Idle
<1>3. proc[p].token \in DOMAIN owner /\ Me(p).server = proc[p].server
  BY <1>1 DEF ProcAtHome, IssuedBy, Me
<1>4. Me(p) \in Account
  BY <1>1, <1>3 DEF FilesOK, Me
<1>5. proc[p].snap \in Cache /\ proc[p].snap.server = proc[p].server
  BY <1>1, <1>2 DEF Reader, ProcAtHome
<1>6. snap \in Cache /\ snap.server = proc[p].server
  BY <1>4, <1>5 DEF Cache
<1>7. FromServer(snap)
  <2>1. FromServer(proc[p].snap)
    BY <1>1 DEF ProcAtHome
  <2>2. QED
    BY <1>3, <1>4, <1>5, <2>1 DEF FromServer, Cache
<1>8. k \in Procedure /\ k.cmd = "reader" /\ k.server = proc[p].server
      /\ k.token = proc[p].token /\ k.snap = snap
  BY <1>2, <1>6 DEF Procedure, Reader
<1>9. ProcAtHome(k)
  <2> HIDE DEF k
  <2>1. QED
    BY <1>1, <1>6, <1>7, <1>8 DEF ProcAtHome
<1>10. proc' = [proc EXCEPT ![p] = k] /\ owner' = owner
  BY DEF Answered, servers
<1>11. cache' \in Cache /\ FromServer(cache)'
  <2>1. cache' = cache \/ cache' = snap
    BY DEF Answered
  <2>2. QED
    BY <1>1, <1>6, <1>7, <2>1 DEF FilesOK, Inv, FromServer
<1>12. FilesOK'
  BY <1>1, <1>11 DEF Answered, FilesOK, servers
<1>13. (creds # None => IssuedBy(creds.server, creds.token))'
  BY DEF Inv, Answered, IssuedBy, servers
<1>14. QED
  BY <1>8, <1>9, <1>10, <1>11, <1>12, <1>13, Assemble

LEMMA AskMeKeeps ==
  ASSUME Inv, NEW p \in Procs, AskMe(p)
  PROVE  Inv'
<1> DEFINE j == [proc[p] EXCEPT !.stage = "reading"]
<1>1. FilesOK /\ proc \in [Procs -> Procedure] /\ ProcAtHome(proc[p])
  BY FilesInInv DEF Inv
<1>2. proc[p].cmd = "reader"
  BY DEF AskMe
<1>3. CASE Answered(p, [proc[p].snap EXCEPT !.user = Me(p)])
  BY <1>2, <1>3, AnsweredKeeps
<1>4. CASE ~Answered(p, [proc[p].snap EXCEPT !.user = Me(p)])
  <2>1. FilesOK' /\ UNCHANGED <<creds, cache, owner>>
    BY <1>1, <1>4 DEF AskMe, FilesOK, servers
  <2>2. j \in Procedure /\ j.cmd = "reader" /\ j.server = proc[p].server
        /\ j.token = proc[p].token /\ j.snap = proc[p].snap
    BY <1>1, <1>2 DEF Procedure, Reader, Command, Idle
  <2>3. ProcAtHome(j)
    <3> HIDE DEF j
    <3>1. QED
      BY <1>1, <1>2, <2>2 DEF ProcAtHome
  <2>4. Idle \in Procedure /\ ProcAtHome(Idle)
    BY NothingHeld DEF Procedure, Idle
  <2>5. proc' = [proc EXCEPT ![p] = j] \/ proc' = [proc EXCEPT ![p] = Idle]
    BY <1>4 DEF AskMe, To, End
  <2>6. QED
    BY <2>1, <2>2, <2>3, <2>4, <2>5, FilesAlone, Assemble
<1>5. QED
  BY <1>3, <1>4

LEMMA AskMarksKeeps ==
  ASSUME Inv, NEW p \in Procs, AskMarks(p)
  PROVE  Inv'
  BY AnsweredKeeps DEF AskMarks

-----------------------------------------------------------------------------
LEMMA InvInductive == Inv /\ [Next]_vars => Inv'
<1> SUFFICES ASSUME Inv, [Next]_vars PROVE Inv'
  OBVIOUS
<1>1. ASSUME NEW p \in Procs,
             \/ \E a \in Account : Login(p, a)
             \/ SaveCredentials(p) \/ ReadConfig(p) \/ SaveConfig(p)
      PROVE  Inv'
  BY <1>1, LoginKeeps, SaveCredentialsKeeps, ReadConfigKeeps, SaveConfigKeeps
<1>2. ASSUME NEW p \in Procs,
             \/ Logout(p) \/ LogoutLocal(p) \/ Revoke(p)
             \/ DeleteCredentials(p) \/ ForgetServer(p)
      PROVE  Inv'
  BY <1>2, LogoutKeeps, LogoutLocalKeeps, RevokeKeeps, DeleteCredentialsKeeps,
     ForgetServerKeeps
<1>3. ASSUME NEW p \in Procs,
             \/ \E n \in Names : LoginLocal(p, n)
             \/ SetUsername(p) \/ InitConfig(p) \/ Exit(p)
      PROVE  Inv'
  BY <1>3, LoginLocalKeeps, SetUsernameKeeps, InitConfigKeeps, ExitKeeps
<1>4. ASSUME NEW p \in Procs, Open(p) \/ AskMe(p) \/ AskMarks(p)
      PROVE  Inv'
  BY <1>4, OpenKeeps, AskMeKeeps, AskMarksKeeps
<1>5. CASE Outage \/ UNCHANGED vars
  <2>1. UNCHANGED <<config, creds, cache, live, owner, proc>>
        /\ (up' = ~up \/ up' = up)
    BY <1>5 DEF Outage, vars, servers
  <2>2. TypeOK'
    BY <2>1 DEF Inv, TypeOK
  <2>3. (\A p \in Procs : ProcAtHome(proc[p]))'
    BY <2>1 DEF Inv, ProcAtHome, IssuedBy, FromServer
  <2>4. QED
    BY <2>1, <2>2, <2>3, FilesAlone DEF Inv
<1>6. QED
  BY <1>1, <1>2, <1>3, <1>4, <1>5 DEF Next

LEMMA InitInv == Init => Inv
<1> SUFFICES ASSUME Init PROVE Inv
  OBVIOUS
<1>1. TypeOK
  <2>1. config \in Config /\ config.server = None
    <3>1. CASE config = [exists |-> FALSE, server |-> None, user |-> None,
                         db |-> FALSE]
      BY <3>1 DEF Config
    <3>2. CASE config = [exists |-> TRUE, server |-> None, user |-> None,
                         db |-> TRUE]
      BY <3>2 DEF Config
    <3>3. QED
      BY <3>1, <3>2 DEF Init
  <2>2. creds \in Creds /\ cache \in Cache
    BY DEF Init, Creds, Cache, NoFile
  <2>3. owner \in Seq(Account) /\ Len(owner) = 0 /\ live \subseteq DOMAIN owner
    BY DEF Init
  <2>4. proc \in [Procs -> Reader \cup Command \cup {Idle}]
    BY DEF Init
  <2>5. up \in BOOLEAN
    BY DEF Init
  <2>6. QED
    BY <2>1, <2>2, <2>3, <2>4, <2>5, SessionAssumption DEF TypeOK
<1>2. \A p \in Procs : ProcAtHome(proc[p])
  BY NothingHeld DEF Init, Idle
<1>3. QED
  BY <1>1, <1>2 DEF Inv, Init, NoFile, FromServer

LEMMA AlwaysInv == Spec => []Inv
  BY InitInv, InvInductive, PTL DEF Spec

(* Every state of the files, the servers and the processes is well typed:  *)
(* a token that is live was issued, and a config that names a server names *)
(* the account there (config.Config, credentials.Credentials, api_tokens). *)
THEOREM TypeCorrect == Spec => []TypeOK
<1>1. Inv => TypeOK
  BY DEF Inv
<1>2. QED
  BY <1>1, AlwaysInv, PTL

(* For any servers, names and processes, and however the commands cross,   *)
(* die or are cut off from their server between the two files: no process  *)
(* sends the token of one server to another, and what it shows offline     *)
(* came from the server it is signed in to (credentials.Load, and load of  *)
(* the snapshot, each of which looks at the server before it hands out).   *)
THEOREM ServersAreApart == Spec => []ServersStayApart
<1>1. ASSUME Inv PROVE ServersStayApart
  <2> SUFFICES ASSUME NEW p \in Procs
               PROVE  /\ proc[p].cmd = "reader" =>
                            /\ Me(p).server = proc[p].server
                            /\ \A a \in {proc[p].snap.user, proc[p].snap.marks} \ {None} :
                                  a.server = proc[p].server
                      /\ proc[p].cmd = "logout" /\ proc[p].token # None
                         => Me(p).server = proc[p].cfg.server
    BY DEF ServersStayApart
  <2>1. ProcAtHome(proc[p])
    BY <1>1 DEF Inv
  <2>2. QED
    BY <2>1 DEF ProcAtHome, IssuedBy, FromServer, Me
<1>2. QED
  BY <1>1, AlwaysInv, PTL

-----------------------------------------------------------------------------
(* What a command that was not crossed has seen to so far: the config it   *)
(* read is the one that is there, until it writes its own, and so for the  *)
(* credentials.  Every write of another process crosses it.                *)
Said(k) ==
    /\ k.cmd = "login" /\ ~k.crossed =>
          /\ k.stage # "done" => config = k.cfg
          /\ k.stage # "save" => creds = [server |-> k.as.server, token |-> k.token]
          /\ k.stage = "done" => config = [k.cfg EXCEPT !.exists = TRUE,
                                                        !.server = k.as.server,
                                                        !.user = k.as.name]
    /\ k.cmd = "logout" /\ k.stage # "revoke" => k.warned \/ k.token \notin live
    /\ k.cmd = "logout" /\ ~k.crossed =>
          /\ k.stage # "done" => config = k.cfg
          /\ k.stage \in {"forget", "done"} => creds = None
          /\ k.stage = "done" => config = [k.cfg EXCEPT !.server = None, !.user = None]

SaidInv == Inv /\ \A p \in Procs : Said(proc[p])

(* No step brings a revoked token back: a new one is one no process holds. *)
OnlyNew == \A t \in live' \ live : t \notin DOMAIN owner /\ t # None

(* A step of p that leaves the files as they are, or crosses the others.   *)
Beside(p) ==
    \A q \in Procs \ {p} :
        \/ proc'[q] = proc[q] /\ UNCHANGED <<config, creds>>
        \/ proc'[q] = Cross(p, proc)[q]

LEMMA OthersKeepTheirWord ==
  ASSUME SaidInv, NEW p \in Procs, OnlyNew, Beside(p),
         NEW q \in Procs, q # p
  PROVE  Said(proc[q])'
<1> DEFINE k == proc[q]
<1>1. k \in Procedure /\ ProcAtHome(k) /\ Said(k)
  BY FilesInInv DEF SaidInv, Inv
<1>2. k.cmd = "logout" /\ k.stage # "revoke" => k.warned \/ k.token \notin live'
  BY <1>1 DEF Said, OnlyNew, ProcAtHome, IssuedBy
<1>3. CASE proc'[q] = k /\ UNCHANGED <<config, creds>>
  BY <1>1, <1>2, <1>3 DEF Said
<1>4. CASE proc'[q] = Cross(p, proc)[q] /\ k.cmd \in {"login", "logout"}
  <2>1. proc'[q] = [k EXCEPT !.crossed = TRUE]
    BY <1>4 DEF Cross
  <2>2. /\ proc'[q].crossed = TRUE /\ proc'[q].cmd = k.cmd
        /\ proc'[q].stage = k.stage /\ proc'[q].token = k.token
        /\ k.cmd = "logout" => proc'[q].warned = k.warned
    BY <1>1, <1>4, <2>1 DEF Procedure, Reader, Command, Idle
  <2>3. QED
    BY <1>2, <2>2 DEF Said
<1>5. CASE proc'[q] = Cross(p, proc)[q] /\ k.cmd \notin {"login", "logout"}
  <2>1. proc'[q] = k
    BY <1>5 DEF Cross
  <2>2. QED
    BY <1>5, <2>1 DEF Said
<1>6. QED
  BY <1>3, <1>4, <1>5 DEF Beside

(* What a process that has said nothing yet, or is gone, has to keep. *)
LEMMA NothingSaid ==
  ASSUME NEW p \in Procs, proc'[p].cmd \notin {"login", "logout"}
  PROVE  Said(proc[p])'
  BY DEF Said

(* A step of p, put together from what p and the others say after it.      *)
LEMMA PutTogether ==
  ASSUME SaidInv, Inv', NEW p \in Procs, OnlyNew, Beside(p), Said(proc[p])'
  PROVE  SaidInv'
<1>1. ASSUME NEW q \in Procs PROVE Said(proc[q])'
  <2>1. CASE q = p
    BY <2>1 DEF Said
  <2>2. CASE q # p
    BY <2>2, OthersKeepTheirWord
  <2>3. QED
    BY <2>1, <2>2
<1>2. QED
  BY <1>1 DEF SaidInv

LEMMA LoginSaid ==
  ASSUME SaidInv, Inv', NEW p \in Procs, NEW a \in Account, Login(p, a)
  PROVE  SaidInv'
<1>1. FilesOK /\ proc \in [Procs -> Procedure] /\ Said(proc[p])
  BY FilesInInv DEF SaidInv
<1>2. OnlyNew
  <2>1. live' \ live \subseteq {Len(owner) + 1}
    BY DEF Login
  <2>2. Len(owner) + 1 \in 1..MaxTokens /\ Len(owner) + 1 \notin DOMAIN owner
    BY <1>1, SessionAssumption DEF FilesOK, Login
  <2>3. QED
    BY <2>1, <2>2, SessionAssumption DEF OnlyNew
<1>3. Beside(p)
  BY <1>1 DEF Login, Beside
<1>4. Said(proc[p])'
  <2>1. CASE proc'[p] = proc[p]
    <3>1. proc[p].cmd = "none"
      BY DEF Login, Idle
    <3>2. QED
      BY <2>1, <3>1 DEF Said
  <2>2. CASE proc'[p] = [cmd |-> "login", stage |-> "save", as |-> a,
                         cfg |-> config, token |-> Len(owner) + 1,
                         crossed |-> FALSE]
    BY <2>2 DEF Said, Login
  <2>3. QED
    BY <1>1, <2>1, <2>2 DEF Login
<1>5. QED
  BY <1>2, <1>3, <1>4, PutTogether

LEMMA SaveCredentialsSaid ==
  ASSUME SaidInv, Inv', NEW p \in Procs, SaveCredentials(p)
  PROVE  SaidInv'
<1> DEFINE k == proc[p]
<1>1. Said(k) /\ k \in Procedure /\ Cross(p, proc) \in [Procs -> Procedure]
      /\ Cross(p, proc)[p] = k
  BY FilesInInv, CrossKeeps DEF SaidInv, Inv
<1>2. OnlyNew
  BY DEF OnlyNew, SaveCredentials, servers
<1>3. Beside(p)
  BY <1>1 DEF Beside, SaveCredentials, Wrote
<1>4. proc'[p] = [k EXCEPT !.stage = "read"]
  BY <1>1 DEF SaveCredentials, Wrote
<1>5. /\ proc'[p].cmd = "login" /\ proc'[p].stage = "read"
      /\ proc'[p].cfg = k.cfg /\ proc'[p].as = k.as /\ proc'[p].token = k.token
      /\ proc'[p].crossed = k.crossed
  BY <1>1, <1>4 DEF SaveCredentials, Procedure, Reader, Command, Idle
<1>6. Said(proc[p])'
  BY <1>1, <1>5 DEF Said, SaveCredentials
<1>7. QED
  BY <1>2, <1>3, <1>6, PutTogether

LEMMA ReadConfigSaid ==
  ASSUME SaidInv, Inv', NEW p \in Procs, ReadConfig(p)
  PROVE  SaidInv'
<1> DEFINE k == proc[p]
<1>1. Said(k) /\ k \in Procedure /\ proc \in [Procs -> Procedure] /\ config \in Config
  BY FilesInInv DEF SaidInv, FilesOK
<1>2. OnlyNew
  BY DEF OnlyNew, ReadConfig, servers
<1>3. Beside(p)
  BY <1>1 DEF Beside, ReadConfig
<1>4. proc'[p] = [k EXCEPT !.stage = "note", !.cfg = config]
  BY <1>1 DEF ReadConfig
<1>5. /\ proc'[p].cmd = "login" /\ proc'[p].stage = "note"
      /\ proc'[p].cfg = config /\ proc'[p].as = k.as /\ proc'[p].token = k.token
      /\ proc'[p].crossed = k.crossed
  <2> DEFINE Logins == [cmd : {"login"}, stage : {"save", "read", "note", "done"},
                        as : Account, cfg : Config, token : Tokens,
                        crossed : BOOLEAN]
  <2>1. k \in Logins
    BY <1>1 DEF ReadConfig, Procedure, Reader, Command, Idle
  <2>2. QED
    BY <1>1, <1>4, <2>1
<1>6. Said(proc[p])'
  BY <1>1, <1>5 DEF Said, ReadConfig
<1>7. QED
  BY <1>2, <1>3, <1>6, PutTogether

LEMMA SaveConfigSaid ==
  ASSUME SaidInv, Inv', NEW p \in Procs, SaveConfig(p)
  PROVE  SaidInv'
<1> DEFINE k == proc[p]
<1>1. Said(k) /\ k \in Procedure /\ Cross(p, proc) \in [Procs -> Procedure]
      /\ Cross(p, proc)[p] = k
  BY FilesInInv, CrossKeeps DEF SaidInv, Inv
<1>2. OnlyNew
  BY DEF OnlyNew, SaveConfig, servers
<1>3. Beside(p)
  BY <1>1 DEF Beside, SaveConfig, Wrote
<1>4. proc'[p] = [k EXCEPT !.stage = "done"]
  BY <1>1 DEF SaveConfig, Wrote
<1>5. /\ proc'[p].cmd = "login" /\ proc'[p].stage = "done"
      /\ proc'[p].cfg = k.cfg /\ proc'[p].as = k.as /\ proc'[p].token = k.token
      /\ proc'[p].crossed = k.crossed
  BY <1>1, <1>4 DEF SaveConfig, Procedure, Reader, Command, Idle
<1>6. Said(proc[p])'
  BY <1>1, <1>5 DEF Said, SaveConfig
<1>7. QED
  BY <1>2, <1>3, <1>6, PutTogether

LEMMA LogoutSaid ==
  ASSUME SaidInv, Inv', NEW p \in Procs, Logout(p)
  PROVE  SaidInv'
<1>1. proc \in [Procs -> Procedure]
  BY FilesInInv DEF SaidInv
<1>2. OnlyNew /\ Beside(p)
  BY <1>1 DEF OnlyNew, Beside, Logout, servers
<1>3. Said(proc[p])'
  BY <1>1 DEF Said, Logout
<1>4. QED
  BY <1>2, <1>3, PutTogether

LEMMA RevokeSaid ==
  ASSUME SaidInv, Inv', NEW p \in Procs, Revoke(p)
  PROVE  SaidInv'
<1> DEFINE k == proc[p]
           w == k.token # None /\ (~up \/ k.token \notin live)
<1>1. /\ Said(k) /\ k \in Procedure /\ proc \in [Procs -> Procedure]
      /\ FilesOK /\ ProcAtHome(k)
  BY FilesInInv DEF SaidInv, Inv
<1>2. OnlyNew
  BY DEF OnlyNew, Revoke
<1>3. Beside(p)
  BY <1>1 DEF Beside, Revoke
<1>4. proc'[p] = [k EXCEPT !.stage = "delete", !.warned = w]
  BY <1>1 DEF Revoke
<1>5. /\ proc'[p].cmd = "logout" /\ proc'[p].stage = "delete"
      /\ proc'[p].cfg = k.cfg /\ proc'[p].token = k.token
      /\ proc'[p].crossed = k.crossed /\ proc'[p].warned = w
  <2> DEFINE Logouts == [cmd : {"logout"},
                         stage : {"revoke", "delete", "forget", "done"},
                         cfg : Config, token : Tokens \cup {None},
                         warned : BOOLEAN, crossed : BOOLEAN]
  <2>1. k \in Logouts /\ w \in BOOLEAN
    BY <1>1 DEF Revoke, Procedure, Reader, Command, Idle
  <2>2. QED
    BY <1>4, <2>1
<1>6. w \/ k.token \notin live'
  <2>1. None \notin live
    BY <1>1, SessionAssumption DEF FilesOK
  <2>2. QED
    BY <2>1 DEF Revoke
<1>7. Said(proc[p])'
  <2> HIDE DEF w
  <2>1. QED
    BY <1>1, <1>5, <1>6 DEF Said, Revoke
<1>8. QED
  BY <1>2, <1>3, <1>7, PutTogether

LEMMA DeleteCredentialsSaid ==
  ASSUME SaidInv, Inv', NEW p \in Procs, DeleteCredentials(p)
  PROVE  SaidInv'
<1> DEFINE k == proc[p]
<1>1. Said(k) /\ k \in Procedure /\ Cross(p, proc) \in [Procs -> Procedure]
      /\ Cross(p, proc)[p] = k
  BY FilesInInv, CrossKeeps DEF SaidInv, Inv
<1>2. OnlyNew
  BY DEF OnlyNew, DeleteCredentials, servers
<1>3. Beside(p)
  BY <1>1 DEF Beside, DeleteCredentials, Wrote
<1>4. proc'[p] = [k EXCEPT !.stage = "forget"]
  BY <1>1 DEF DeleteCredentials, Wrote
<1>5. /\ proc'[p].cmd = "logout" /\ proc'[p].stage = "forget"
      /\ proc'[p].cfg = k.cfg /\ proc'[p].token = k.token
      /\ proc'[p].crossed = k.crossed /\ proc'[p].warned = k.warned
  BY <1>1, <1>4 DEF DeleteCredentials, Procedure, Reader, Command, Idle
<1>6. Said(proc[p])'
  BY <1>1, <1>5 DEF Said, DeleteCredentials, servers
<1>7. QED
  BY <1>2, <1>3, <1>6, PutTogether

LEMMA ForgetServerSaid ==
  ASSUME SaidInv, Inv', NEW p \in Procs, ForgetServer(p)
  PROVE  SaidInv'
<1> DEFINE k == proc[p]
<1>1. Said(k) /\ k \in Procedure /\ Cross(p, proc) \in [Procs -> Procedure]
      /\ Cross(p, proc)[p] = k
  BY FilesInInv, CrossKeeps DEF SaidInv, Inv
<1>2. OnlyNew
  BY DEF OnlyNew, ForgetServer, servers
<1>3. Beside(p)
  BY <1>1 DEF Beside, ForgetServer, Wrote
<1>4. proc'[p] = [k EXCEPT !.stage = "done"]
  BY <1>1 DEF ForgetServer, Wrote
<1>5. /\ proc'[p].cmd = "logout" /\ proc'[p].stage = "done"
      /\ proc'[p].cfg = k.cfg /\ proc'[p].token = k.token
      /\ proc'[p].crossed = k.crossed /\ proc'[p].warned = k.warned
  BY <1>1, <1>4 DEF ForgetServer, Procedure, Reader, Command, Idle
<1>6. Said(proc[p])'
  BY <1>1, <1>5 DEF Said, ForgetServer, servers
<1>7. QED
  BY <1>2, <1>3, <1>6, PutTogether

(* The steps that leave p with nothing to say: it is idle, reads, or logs  *)
(* in to its own database, or out of it.                                   *)
LEMMA SilentSaid ==
  ASSUME SaidInv, Inv', NEW p \in Procs,
         \/ \E n \in Names : LoginLocal(p, n)
         \/ LogoutLocal(p) \/ SetUsername(p) \/ InitConfig(p) \/ Exit(p)
         \/ Open(p) \/ AskMe(p) \/ AskMarks(p)
  PROVE  SaidInv'
<1>1. /\ proc \in [Procs -> Procedure] /\ Cross(p, proc) \in [Procs -> Procedure]
      /\ Cross(p, proc)[p] = proc[p] /\ proc[p] \in Procedure
  BY FilesInInv, CrossKeeps DEF SaidInv, Inv
<1>2. UNCHANGED servers
  BY DEF LoginLocal, LogoutLocal, SetUsername, InitConfig, Exit, Open, AskMe,
         AskMarks, Answered
<1>3. OnlyNew
  BY <1>2 DEF OnlyNew, servers
<1>4. CASE \/ \E n \in Names : LoginLocal(p, n)
           \/ LogoutLocal(p) \/ Exit(p) \/ Open(p)
  <2>1. Beside(p)
    BY <1>1, <1>4 DEF Beside, LoginLocal, LogoutLocal, Exit, End, Open
  <2>2. proc'[p].cmd \notin {"login", "logout"}
    BY <1>1, <1>4 DEF LoginLocal, LogoutLocal, Exit, End, Open, Idle
  <2>3. QED
    BY <1>3, <2>1, <2>2, NothingSaid, PutTogether
<1>5. CASE AskMe(p) \/ AskMarks(p)
  <2>1. Beside(p)
    BY <1>1, <1>5 DEF Beside, AskMe, AskMarks, Answered, To, End
  <2>2. proc[p].cmd = "reader"
    BY <1>5 DEF AskMe, AskMarks
  <2>3. proc'[p].cmd \in {"reader", "none"}
    BY <1>1, <1>5, <2>2 DEF AskMe, AskMarks, Answered, To, End, Idle, Procedure,
                            Reader, Command
  <2>4. QED
    BY <1>3, <2>1, <2>3, NothingSaid, PutTogether
<1>6. CASE SetUsername(p) \/ InitConfig(p)
  <2>1. Beside(p)
    BY <1>1, <1>6 DEF Beside, SetUsername, InitConfig
  <2>2. proc'[p].cmd \notin {"login", "logout"}
    BY <1>1, <1>6 DEF SetUsername, InitConfig, Idle
  <2>3. QED
    BY <1>3, <2>1, <2>2, NothingSaid, PutTogether
<1>7. QED
  BY <1>4, <1>5, <1>6

LEMMA SaidInductive == SaidInv /\ [Next]_vars => SaidInv'
<1> SUFFICES ASSUME SaidInv, [Next]_vars PROVE SaidInv'
  OBVIOUS
<1>1. Inv'
  BY InvInductive DEF SaidInv
<1>2. ASSUME NEW p \in Procs,
             \/ \E a \in Account : Login(p, a)
             \/ SaveCredentials(p) \/ ReadConfig(p) \/ SaveConfig(p)
      PROVE  SaidInv'
  BY <1>1, <1>2, LoginSaid, SaveCredentialsSaid, ReadConfigSaid, SaveConfigSaid
<1>3. ASSUME NEW p \in Procs,
             Logout(p) \/ Revoke(p) \/ DeleteCredentials(p) \/ ForgetServer(p)
      PROVE  SaidInv'
  BY <1>1, <1>3, LogoutSaid, RevokeSaid, DeleteCredentialsSaid, ForgetServerSaid
<1>4. ASSUME NEW p \in Procs,
             \/ \E n \in Names : LoginLocal(p, n)
             \/ LogoutLocal(p) \/ SetUsername(p) \/ InitConfig(p) \/ Exit(p)
             \/ Open(p) \/ AskMe(p) \/ AskMarks(p)
      PROVE  SaidInv'
  BY <1>1, <1>4, SilentSaid
<1>5. CASE Outage \/ UNCHANGED vars
  <2>1. UNCHANGED <<config, creds, live, proc>>
    BY <1>5 DEF Outage, vars, servers
  <2>2. QED
    BY <1>1, <2>1 DEF SaidInv, Said
<1>6. QED
  BY <1>2, <1>3, <1>4, <1>5 DEF Next

LEMMA AlwaysSaid == Spec => []SaidInv
<1>1. Init => SaidInv
  BY InitInv DEF Init, SaidInv, Said, Idle
<1>2. QED
  BY <1>1, SaidInductive, PTL DEF Spec

(* A login or a logout that runs to its end, with no other command writing *)
(* the files meanwhile, leaves them as it says: the account opens, or the  *)
(* server is forgotten and its token is good for nothing, or the user was  *)
(* warned (runLogin, logout of remote.go), however many others run beside  *)
(* it, and whatever the server did.                                        *)
THEOREM CommandsKeepTheirWord == Spec => []CommandsDoWhatTheySay
<1>1. ASSUME SaidInv PROVE CommandsDoWhatTheySay
  <2> SUFFICES ASSUME NEW p \in Procs, NEW k, k = proc[p]
               PROVE  /\ k.cmd = "login" /\ k.stage = "done" /\ ~k.crossed
                         => /\ config = [exists |-> TRUE, server |-> k.as.server,
                                         user |-> k.as.name, db |-> k.cfg.db]
                            /\ Load(k.as.server) = k.token
                      /\ k.cmd = "logout" /\ k.stage = "done" /\ ~k.crossed
                         => /\ config = [k.cfg EXCEPT !.server = None, !.user = None]
                            /\ \A s \in Servers : Load(s) = None
                            /\ k.warned \/ k.token \notin live
    BY DEF CommandsDoWhatTheySay
  <2>1. k \in Procedure /\ Said(k) /\ creds \in Creds
    BY <1>1, FilesInInv DEF SaidInv, FilesOK
  <2>2. CASE k.cmd = "login" /\ k.stage = "done" /\ ~k.crossed
    <3>1. k.cfg \in Config /\ k.as \in Account /\ k.token \in Tokens
      BY <2>1, <2>2 DEF Procedure, Reader, Command, Idle
    <3>2. config = [k.cfg EXCEPT !.exists = TRUE, !.server = k.as.server,
                                 !.user = k.as.name]
      BY <2>1, <2>2 DEF Said
    <3>3. config = [exists |-> TRUE, server |-> k.as.server,
                    user |-> k.as.name, db |-> k.cfg.db]
      BY <3>1, <3>2 DEF Config
    <3>4. creds = [server |-> k.as.server, token |-> k.token]
      BY <2>1, <2>2 DEF Said
    <3>5. creds # None
      BY <3>1, <3>4, SessionAssumption DEF Account, Tokens
    <3>6. QED
      BY <2>2, <3>3, <3>4, <3>5 DEF Load
  <2>3. CASE k.cmd = "logout" /\ k.stage = "done" /\ ~k.crossed
    BY <2>1, <2>3 DEF Said, Load
  <2>4. QED
    BY <2>2, <2>3
<1>2. QED
  BY <1>1, AlwaysSaid, PTL

=============================================================================
