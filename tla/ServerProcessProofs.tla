------------------------- MODULE ServerProcessProofs -------------------------
(***************************************************************************)
(* Theorems about ServerProcess, for any managers and any number of servers.*)
(***************************************************************************)
EXTENDS ServerProcess, TLAPS

\* The server that is reported under the name is one that runs.
LEMMA KnownIsListed == Listed # {} => Known \in Listed /\ Known \in Servers
<1>1. Listed \subseteq Servers
  BY DEF Listed
<1>2. QED
  BY <1>1 DEF Known

-----------------------------------------------------------------------------
(* The inductive invariant *)

Alive(p) == state[p] \in {"starting", "running"}

\* Who has spawned a process, and what it has printed.
SpawnInv ==
    \A p \in Servers :
        /\ state[p] = "unused" => spawner[p] = Someone /\ line[p] = NoServer
        /\ state[p] = "starting" =>
              /\ spawner[p] \in Managers /\ line[p] = NoServer
              /\ pc[spawner[p]] = "wait" /\ child[spawner[p]] = p
        /\ state[p] = "running" /\ spawner[p] \in Managers => line[p] = p

\* A call that waits for a child has it, and it is the only live one it has.
CallInv ==
    \A m \in Managers :
        /\ pc[m] = "wait" =>
              /\ child[m] \in Servers /\ spawner[child[m]] = m /\ owns[m]
              /\ \A p \in Servers : spawner[p] = m /\ Alive(p) => p = child[m]
        /\ pc[m] = "spawn" => \A p \in Servers : spawner[p] = m => ~Alive(p)
        /\ queue[m] = "info" => line[child[m]] # NoServer
        /\ queue[m] = "exception" => state[child[m]] = "dead"
        /\ queue[m] # "empty" => pc[m] = "wait"

\* Whoever owns a server has spawned one; whoever attaches has not.
OwnerInv ==
    \A m \in Managers :
        /\ owns[m] => \E p \in Servers : spawner[p] = m
        /\ pc[m] = "stop" => owns[m]
        /\ pc[m] \in {"replace", "poll", "spawn", "wait"} => mode[m] \in {"plain", "force"}
        /\ mode[m] \in {"attach", "reuse"} => \A p \in Servers : spawner[p] # m

IInv == TypeOK /\ SpawnInv /\ CallInv /\ OwnerInv /\ NoOrphans /\ StopSparesOthers

-----------------------------------------------------------------------------
(* The steps that preserve it *)

LEMMA ResolveStep == ASSUME IInv, NEW m \in Managers, Resolve(m) PROVE IInv'
<1> USE DEF IInv
<1>1. TypeOK'
  BY ManagersAssumption DEF TypeOK, CallInv, SpawnInv, Resolve, Goes, managerVars, serverVars, NoServer
<1>2. SpawnInv'
  BY ManagersAssumption DEF TypeOK, SpawnInv, CallInv, Resolve, Goes, managerVars, serverVars, NoServer
<1>3. CallInv'
  BY ManagersAssumption DEF TypeOK, SpawnInv, CallInv, Alive, OwnerInv, Resolve, Goes, managerVars, serverVars, NoServer
<1>4. OwnerInv'
  BY ManagersAssumption DEF TypeOK, SpawnInv, CallInv, OwnerInv, Resolve, Goes, managerVars, serverVars
<1>5. NoOrphans'
  BY ManagersAssumption DEF TypeOK, SpawnInv, CallInv, Alive, OwnerInv, NoOrphans, Resolve, Goes, managerVars, serverVars
<1>6. StopSparesOthers'
  BY ManagersAssumption DEF TypeOK, SpawnInv, OwnerInv, StopSparesOthers, Resolve, Goes, managerVars, serverVars
<1>7. QED
  BY <1>1, <1>2, <1>3, <1>4, <1>5, <1>6

LEMMA AttachStep == ASSUME IInv, NEW m \in Managers, Attach(m) PROVE IInv'
<1> USE DEF IInv
<1>1. TypeOK'
  <2>1. info' \in [Managers -> Servers \cup {NoServer}]
    BY KnownIsListed DEF TypeOK, Attach
  <2>2. owns' \in [Managers -> BOOLEAN]
    BY DEF TypeOK, Attach
  <2>3. QED
    BY <2>1, <2>2 DEF TypeOK, Attach, Ends, serverVars, NoServer
<1>2. SpawnInv'
  BY ManagersAssumption, KnownIsListed DEF TypeOK, SpawnInv, CallInv, Attach, Ends, Starting, managerVars, serverVars, NoServer
<1>3. CallInv'
  BY ManagersAssumption, KnownIsListed DEF TypeOK, SpawnInv, CallInv, Alive, OwnerInv, Attach, Ends, Starting, managerVars, serverVars, NoServer
<1>4. OwnerInv'
  BY ManagersAssumption, KnownIsListed DEF TypeOK, SpawnInv, CallInv, OwnerInv, Attach, Ends, Starting, managerVars, serverVars
<1>5. NoOrphans'
  BY ManagersAssumption, KnownIsListed DEF TypeOK, SpawnInv, CallInv, Alive, OwnerInv, NoOrphans, Attach, Ends, Starting, managerVars, serverVars
<1>6. StopSparesOthers'
  BY ManagersAssumption, KnownIsListed DEF TypeOK, SpawnInv, OwnerInv, StopSparesOthers, Attach, Ends, Starting, managerVars, serverVars
<1>7. QED
  BY <1>1, <1>2, <1>3, <1>4, <1>5, <1>6

LEMMA StartStep == ASSUME IInv, NEW m \in Managers, Start(m) PROVE IInv'
<1> USE DEF IInv
<1>1. TypeOK'
  BY ManagersAssumption DEF TypeOK, CallInv, SpawnInv, Start, Goes, Ends, Starting, Listed, managerVars, serverVars, NoServer
<1>2. SpawnInv'
  BY ManagersAssumption DEF TypeOK, SpawnInv, CallInv, Start, Goes, Ends, Starting, Listed, managerVars, serverVars, NoServer
<1>3. CallInv'
  BY ManagersAssumption DEF TypeOK, SpawnInv, CallInv, Alive, OwnerInv, Start, Goes, Ends, Starting, Listed, managerVars, serverVars, NoServer
<1>4. OwnerInv'
  BY ManagersAssumption DEF TypeOK, SpawnInv, CallInv, OwnerInv, Start, Goes, Ends, Starting, Listed, managerVars, serverVars
<1>5. NoOrphans'
  BY ManagersAssumption DEF TypeOK, SpawnInv, CallInv, Alive, OwnerInv, NoOrphans, Start, Goes, Ends, Starting, Listed, managerVars, serverVars
<1>6. StopSparesOthers'
  BY ManagersAssumption DEF TypeOK, SpawnInv, OwnerInv, StopSparesOthers, Start, Goes, Ends, Starting, Listed, managerVars, serverVars
<1>7. QED
  BY <1>1, <1>2, <1>3, <1>4, <1>5, <1>6

LEMMA StopStep == ASSUME IInv, NEW m \in Managers, Stop(m) PROVE IInv'
<1> USE DEF IInv
<1>1. TypeOK'
  <2>1. info' \in [Managers -> Servers \cup {NoServer}]
    BY DEF TypeOK, Stop, Reset
  <2>2. owns' \in [Managers -> BOOLEAN]
    BY DEF TypeOK, Stop, Reset
  <2>3. QED
    BY <2>1, <2>2 DEF TypeOK, Stop, Goes, Ends, serverVars, NoServer
<1>2. SpawnInv'
  BY ManagersAssumption DEF TypeOK, SpawnInv, CallInv, Stop, Goes, Ends, Reset, Listed, managerVars, serverVars, NoServer
<1>3. CallInv'
  BY ManagersAssumption DEF TypeOK, SpawnInv, CallInv, Alive, OwnerInv, Stop, Goes, Ends, Reset, Listed, managerVars, serverVars, NoServer
<1>4. OwnerInv'
  BY ManagersAssumption DEF TypeOK, SpawnInv, CallInv, OwnerInv, Stop, Goes, Ends, Reset, Listed, managerVars, serverVars
<1>5. NoOrphans'
  BY ManagersAssumption DEF TypeOK, SpawnInv, CallInv, Alive, OwnerInv, NoOrphans, Stop, Goes, Ends, Reset, Listed, managerVars, serverVars
<1>6. StopSparesOthers'
  BY ManagersAssumption DEF TypeOK, SpawnInv, OwnerInv, StopSparesOthers, Stop, Goes, Ends, Reset, Listed, managerVars, serverVars
<1>7. QED
  BY <1>1, <1>2, <1>3, <1>4, <1>5, <1>6

LEMMA ListFailsStep == ASSUME IInv, NEW m \in Managers, ListFails(m) PROVE IInv'
<1> USE DEF IInv
<1>1. TypeOK'
  BY ManagersAssumption DEF TypeOK, CallInv, SpawnInv, ListFails, Ends, managerVars, serverVars, NoServer
<1>2. SpawnInv'
  BY ManagersAssumption DEF TypeOK, SpawnInv, CallInv, ListFails, Ends, managerVars, serverVars, NoServer
<1>3. CallInv'
  BY ManagersAssumption DEF TypeOK, SpawnInv, CallInv, Alive, OwnerInv, ListFails, Ends, managerVars, serverVars, NoServer
<1>4. OwnerInv'
  BY ManagersAssumption DEF TypeOK, SpawnInv, CallInv, OwnerInv, ListFails, Ends, managerVars, serverVars
<1>5. NoOrphans'
  BY ManagersAssumption DEF TypeOK, SpawnInv, CallInv, Alive, OwnerInv, NoOrphans, ListFails, Ends, managerVars, serverVars
<1>6. StopSparesOthers'
  BY ManagersAssumption DEF TypeOK, SpawnInv, OwnerInv, StopSparesOthers, ListFails, Ends, managerVars, serverVars
<1>7. QED
  BY <1>1, <1>2, <1>3, <1>4, <1>5, <1>6

LEMMA ReplaceStep == ASSUME IInv, NEW m \in Managers, Replace(m) PROVE IInv'
<1> USE DEF IInv
<1>1. TypeOK'
  BY ManagersAssumption DEF TypeOK, CallInv, SpawnInv, Replace, Goes, StopListed, Listed, managerVars, serverVars, NoServer
<1>2. SpawnInv'
  BY ManagersAssumption DEF TypeOK, SpawnInv, CallInv, Replace, Goes, StopListed, Listed, managerVars, serverVars, NoServer
<1>3. CallInv'
  BY ManagersAssumption DEF TypeOK, SpawnInv, CallInv, Alive, OwnerInv, Replace, Goes, StopListed, Listed, managerVars, serverVars, NoServer
<1>4. OwnerInv'
  BY ManagersAssumption DEF TypeOK, SpawnInv, CallInv, OwnerInv, Replace, Goes, StopListed, Listed, managerVars, serverVars
<1>5. NoOrphans'
  BY ManagersAssumption DEF TypeOK, SpawnInv, CallInv, Alive, OwnerInv, NoOrphans, Replace, Goes, StopListed, Listed, managerVars, serverVars
<1>6. StopSparesOthers'
  BY ManagersAssumption DEF TypeOK, SpawnInv, OwnerInv, StopSparesOthers, Replace, Goes, StopListed, Listed, managerVars, serverVars
<1>7. QED
  BY <1>1, <1>2, <1>3, <1>4, <1>5, <1>6

LEMMA GoneStep == ASSUME IInv, NEW m \in Managers, Gone(m) PROVE IInv'
<1> USE DEF IInv
<1>1. TypeOK'
  BY ManagersAssumption DEF TypeOK, CallInv, SpawnInv, Gone, Goes, Listed, managerVars, serverVars, NoServer
<1>2. SpawnInv'
  BY ManagersAssumption DEF TypeOK, SpawnInv, CallInv, Gone, Goes, Listed, managerVars, serverVars, NoServer
<1>3. CallInv'
  BY ManagersAssumption DEF TypeOK, SpawnInv, CallInv, Alive, OwnerInv, Gone, Goes, Listed, managerVars, serverVars, NoServer
<1>4. OwnerInv'
  BY ManagersAssumption DEF TypeOK, SpawnInv, CallInv, OwnerInv, Gone, Goes, Listed, managerVars, serverVars
<1>5. NoOrphans'
  BY ManagersAssumption DEF TypeOK, SpawnInv, CallInv, Alive, OwnerInv, NoOrphans, Gone, Goes, Listed, managerVars, serverVars
<1>6. StopSparesOthers'
  BY ManagersAssumption DEF TypeOK, SpawnInv, OwnerInv, StopSparesOthers, Gone, Goes, Listed, managerVars, serverVars
<1>7. QED
  BY <1>1, <1>2, <1>3, <1>4, <1>5, <1>6

LEMMA GivesUpStep == ASSUME IInv, NEW m \in Managers, GivesUp(m) PROVE IInv'
<1> USE DEF IInv
<1>1. TypeOK'
  BY ManagersAssumption DEF TypeOK, CallInv, SpawnInv, GivesUp, Ends, managerVars, serverVars, NoServer
<1>2. SpawnInv'
  BY ManagersAssumption DEF TypeOK, SpawnInv, CallInv, GivesUp, Ends, managerVars, serverVars, NoServer
<1>3. CallInv'
  BY ManagersAssumption DEF TypeOK, SpawnInv, CallInv, Alive, OwnerInv, GivesUp, Ends, managerVars, serverVars, NoServer
<1>4. OwnerInv'
  BY ManagersAssumption DEF TypeOK, SpawnInv, CallInv, OwnerInv, GivesUp, Ends, managerVars, serverVars
<1>5. NoOrphans'
  BY ManagersAssumption DEF TypeOK, SpawnInv, CallInv, Alive, OwnerInv, NoOrphans, GivesUp, Ends, managerVars, serverVars
<1>6. StopSparesOthers'
  BY ManagersAssumption DEF TypeOK, SpawnInv, OwnerInv, StopSparesOthers, GivesUp, Ends, managerVars, serverVars
<1>7. QED
  BY <1>1, <1>2, <1>3, <1>4, <1>5, <1>6

LEMMA SpawnFailsStep == ASSUME IInv, NEW m \in Managers, SpawnFails(m) PROVE IInv'
<1> USE DEF IInv
<1>1. TypeOK'
  BY ManagersAssumption DEF TypeOK, CallInv, SpawnInv, SpawnFails, Ends, managerVars, serverVars, NoServer
<1>2. SpawnInv'
  BY ManagersAssumption DEF TypeOK, SpawnInv, CallInv, SpawnFails, Ends, managerVars, serverVars, NoServer
<1>3. CallInv'
  BY ManagersAssumption DEF TypeOK, SpawnInv, CallInv, Alive, OwnerInv, SpawnFails, Ends, managerVars, serverVars, NoServer
<1>4. OwnerInv'
  BY ManagersAssumption DEF TypeOK, SpawnInv, CallInv, OwnerInv, SpawnFails, Ends, managerVars, serverVars
<1>5. NoOrphans'
  BY ManagersAssumption DEF TypeOK, SpawnInv, CallInv, Alive, OwnerInv, NoOrphans, SpawnFails, Ends, managerVars, serverVars
<1>6. StopSparesOthers'
  BY ManagersAssumption DEF TypeOK, SpawnInv, OwnerInv, StopSparesOthers, SpawnFails, Ends, managerVars, serverVars
<1>7. QED
  BY <1>1, <1>2, <1>3, <1>4, <1>5, <1>6

LEMMA SpawnStep == ASSUME IInv, NEW m \in Managers, Spawn(m) PROVE IInv'
<1> USE DEF IInv
<1>1. TypeOK'
  BY ManagersAssumption DEF TypeOK, CallInv, SpawnInv, Spawn, IsNext, managerVars, serverVars, NoServer
<1>2. SpawnInv'
  BY ManagersAssumption DEF TypeOK, SpawnInv, CallInv, Spawn, IsNext, managerVars, serverVars, NoServer
<1>3. CallInv'
  BY ManagersAssumption DEF TypeOK, SpawnInv, CallInv, Alive, OwnerInv, Spawn, IsNext, managerVars, serverVars, NoServer
<1>4. OwnerInv'
  BY ManagersAssumption DEF TypeOK, SpawnInv, CallInv, OwnerInv, Spawn, IsNext, managerVars, serverVars
<1>5. NoOrphans'
  BY ManagersAssumption DEF TypeOK, SpawnInv, CallInv, Alive, OwnerInv, NoOrphans, Spawn, IsNext, managerVars, serverVars
<1>6. StopSparesOthers'
  BY ManagersAssumption DEF TypeOK, SpawnInv, OwnerInv, StopSparesOthers, Spawn, IsNext, managerVars, serverVars
<1>7. QED
  BY <1>1, <1>2, <1>3, <1>4, <1>5, <1>6

LEMMA ReadsStep == ASSUME IInv, NEW m \in Managers, Reads(m) PROVE IInv'
<1> USE DEF IInv
<1>1. TypeOK'
  BY ManagersAssumption DEF TypeOK, CallInv, SpawnInv, Reads, managerVars, serverVars, NoServer
<1>2. SpawnInv'
  BY ManagersAssumption DEF TypeOK, SpawnInv, CallInv, Reads, managerVars, serverVars, NoServer
<1>3. CallInv'
  BY ManagersAssumption DEF TypeOK, SpawnInv, CallInv, Alive, OwnerInv, Reads, managerVars, serverVars, NoServer
<1>4. OwnerInv'
  BY ManagersAssumption DEF TypeOK, SpawnInv, CallInv, OwnerInv, Reads, managerVars, serverVars
<1>5. NoOrphans'
  BY ManagersAssumption DEF TypeOK, SpawnInv, CallInv, Alive, OwnerInv, NoOrphans, Reads, managerVars, serverVars
<1>6. StopSparesOthers'
  BY ManagersAssumption DEF TypeOK, SpawnInv, OwnerInv, StopSparesOthers, Reads, managerVars, serverVars
<1>7. QED
  BY <1>1, <1>2, <1>3, <1>4, <1>5, <1>6

LEMMA ReadyStep == ASSUME IInv, NEW m \in Managers, Ready(m) PROVE IInv'
<1> USE DEF IInv
<1>1. TypeOK'
  BY ManagersAssumption DEF TypeOK, CallInv, SpawnInv, Ready, Ends, managerVars, serverVars, NoServer
<1>2. SpawnInv'
  BY ManagersAssumption DEF TypeOK, SpawnInv, CallInv, Ready, Ends, managerVars, serverVars, NoServer
<1>3. CallInv'
  BY ManagersAssumption DEF TypeOK, SpawnInv, CallInv, Alive, OwnerInv, Ready, Ends, managerVars, serverVars, NoServer
<1>4. OwnerInv'
  BY ManagersAssumption DEF TypeOK, SpawnInv, CallInv, OwnerInv, Ready, Ends, managerVars, serverVars
<1>5. NoOrphans'
  BY ManagersAssumption DEF TypeOK, SpawnInv, CallInv, Alive, OwnerInv, NoOrphans, Ready, Ends, managerVars, serverVars
<1>6. StopSparesOthers'
  BY ManagersAssumption DEF TypeOK, SpawnInv, OwnerInv, StopSparesOthers, Ready, Ends, managerVars, serverVars
<1>7. QED
  BY <1>1, <1>2, <1>3, <1>4, <1>5, <1>6

LEMMA ExitedEarlyStep == ASSUME IInv, NEW m \in Managers, ExitedEarly(m) PROVE IInv'
<1> USE DEF IInv
<1>1. TypeOK'
  BY ManagersAssumption DEF TypeOK, CallInv, SpawnInv, ExitedEarly, Ends, managerVars, serverVars, NoServer
<1>2. SpawnInv'
  BY ManagersAssumption DEF TypeOK, SpawnInv, CallInv, ExitedEarly, Ends, managerVars, serverVars, NoServer
<1>3. CallInv'
  BY ManagersAssumption DEF TypeOK, SpawnInv, CallInv, Alive, OwnerInv, ExitedEarly, Ends, managerVars, serverVars, NoServer
<1>4. OwnerInv'
  BY ManagersAssumption DEF TypeOK, SpawnInv, CallInv, OwnerInv, ExitedEarly, Ends, managerVars, serverVars
<1>5. NoOrphans'
  BY ManagersAssumption DEF TypeOK, SpawnInv, CallInv, Alive, OwnerInv, NoOrphans, ExitedEarly, Ends, managerVars, serverVars
<1>6. StopSparesOthers'
  BY ManagersAssumption DEF TypeOK, SpawnInv, OwnerInv, StopSparesOthers, ExitedEarly, Ends, managerVars, serverVars
<1>7. QED
  BY <1>1, <1>2, <1>3, <1>4, <1>5, <1>6

LEMMA TimesOutStep == ASSUME IInv, NEW m \in Managers, TimesOut(m) PROVE IInv'
<1> USE DEF IInv
<1>1. TypeOK'
  BY ManagersAssumption DEF TypeOK, CallInv, SpawnInv, TimesOut, Ends, managerVars, serverVars, NoServer
<1>2. SpawnInv'
  BY ManagersAssumption DEF TypeOK, SpawnInv, CallInv, TimesOut, Ends, managerVars, serverVars, NoServer
<1>3. CallInv'
  BY ManagersAssumption DEF TypeOK, SpawnInv, CallInv, Alive, OwnerInv, TimesOut, Ends, managerVars, serverVars, NoServer
<1>4. OwnerInv'
  BY ManagersAssumption DEF TypeOK, SpawnInv, CallInv, OwnerInv, TimesOut, Ends, managerVars, serverVars
<1>5. NoOrphans'
  BY ManagersAssumption DEF TypeOK, SpawnInv, CallInv, Alive, OwnerInv, NoOrphans, TimesOut, Ends, managerVars, serverVars
<1>6. StopSparesOthers'
  BY ManagersAssumption DEF TypeOK, SpawnInv, OwnerInv, StopSparesOthers, TimesOut, Ends, managerVars, serverVars
<1>7. QED
  BY <1>1, <1>2, <1>3, <1>4, <1>5, <1>6

LEMMA StopOrderStep == ASSUME IInv, NEW m \in Managers, StopOrder(m) PROVE IInv'
<1> USE DEF IInv
<1>1. TypeOK'
  BY ManagersAssumption DEF TypeOK, CallInv, SpawnInv, StopOrder, StopListed, Reset, Ends, Listed, managerVars, serverVars, NoServer
<1>2. SpawnInv'
  BY ManagersAssumption DEF TypeOK, SpawnInv, CallInv, StopOrder, StopListed, Reset, Ends, Listed, managerVars, serverVars, NoServer
<1>3. CallInv'
  BY ManagersAssumption DEF TypeOK, SpawnInv, CallInv, Alive, OwnerInv, StopOrder, StopListed, Reset, Ends, Listed, managerVars, serverVars, NoServer
<1>4. OwnerInv'
  BY ManagersAssumption DEF TypeOK, SpawnInv, CallInv, OwnerInv, StopOrder, StopListed, Reset, Ends, Listed, managerVars, serverVars
<1>5. NoOrphans'
  BY ManagersAssumption DEF TypeOK, SpawnInv, CallInv, Alive, OwnerInv, NoOrphans, StopOrder, StopListed, Reset, Ends, Listed, managerVars, serverVars
<1>6. StopSparesOthers'
  BY ManagersAssumption DEF TypeOK, SpawnInv, OwnerInv, StopSparesOthers, StopOrder, StopListed, Reset, Ends, Listed, managerVars, serverVars
<1>7. QED
  BY <1>1, <1>2, <1>3, <1>4, <1>5, <1>6

LEMMA ServesStep == ASSUME IInv, NEW p \in Servers, Serves(p) PROVE IInv'
<1> USE DEF IInv
<1>1. TypeOK'
  BY ManagersAssumption, KnownIsListed DEF TypeOK, CallInv, SpawnInv, Serves, Listed, managerVars, serverVars, NoServer
<1>2. SpawnInv'
  BY ManagersAssumption, KnownIsListed DEF TypeOK, SpawnInv, CallInv, Serves, Listed, managerVars, serverVars, NoServer
<1>3. CallInv'
  BY ManagersAssumption, KnownIsListed DEF TypeOK, SpawnInv, CallInv, Alive, OwnerInv, Serves, Listed, managerVars, serverVars, NoServer
<1>4. OwnerInv'
  BY ManagersAssumption, KnownIsListed DEF TypeOK, SpawnInv, CallInv, OwnerInv, Serves, Listed, managerVars, serverVars
<1>5. NoOrphans'
  BY ManagersAssumption, KnownIsListed DEF TypeOK, SpawnInv, CallInv, Alive, OwnerInv, NoOrphans, Serves, Listed, managerVars, serverVars
<1>6. StopSparesOthers'
  BY ManagersAssumption, KnownIsListed DEF TypeOK, SpawnInv, OwnerInv, StopSparesOthers, Serves, Listed, managerVars, serverVars
<1>7. QED
  BY <1>1, <1>2, <1>3, <1>4, <1>5, <1>6

LEMMA ExitsStep == ASSUME IInv, NEW p \in Servers, Exits(p) PROVE IInv'
<1> USE DEF IInv
<1>1. TypeOK'
  BY ManagersAssumption DEF TypeOK, CallInv, SpawnInv, Exits, managerVars, serverVars, NoServer
<1>2. SpawnInv'
  BY ManagersAssumption DEF TypeOK, SpawnInv, CallInv, Exits, managerVars, serverVars, NoServer
<1>3. CallInv'
  BY ManagersAssumption DEF TypeOK, SpawnInv, CallInv, Alive, OwnerInv, Exits, managerVars, serverVars, NoServer
<1>4. OwnerInv'
  BY ManagersAssumption DEF TypeOK, SpawnInv, CallInv, OwnerInv, Exits, managerVars, serverVars
<1>5. NoOrphans'
  BY ManagersAssumption DEF TypeOK, SpawnInv, CallInv, Alive, OwnerInv, NoOrphans, Exits, managerVars, serverVars
<1>6. StopSparesOthers'
  BY ManagersAssumption DEF TypeOK, SpawnInv, OwnerInv, StopSparesOthers, Exits, managerVars, serverVars
<1>7. QED
  BY <1>1, <1>2, <1>3, <1>4, <1>5, <1>6

LEMMA CrashesStep == ASSUME IInv, NEW p \in Servers, Crashes(p) PROVE IInv'
<1> USE DEF IInv
<1>1. TypeOK'
  BY ManagersAssumption DEF TypeOK, CallInv, SpawnInv, Crashes, managerVars, serverVars, NoServer
<1>2. SpawnInv'
  BY ManagersAssumption DEF TypeOK, SpawnInv, CallInv, Crashes, managerVars, serverVars, NoServer
<1>3. CallInv'
  BY ManagersAssumption DEF TypeOK, SpawnInv, CallInv, Alive, OwnerInv, Crashes, managerVars, serverVars, NoServer
<1>4. OwnerInv'
  BY ManagersAssumption DEF TypeOK, SpawnInv, CallInv, OwnerInv, Crashes, managerVars, serverVars
<1>5. NoOrphans'
  BY ManagersAssumption DEF TypeOK, SpawnInv, CallInv, Alive, OwnerInv, NoOrphans, Crashes, managerVars, serverVars
<1>6. StopSparesOthers'
  BY ManagersAssumption DEF TypeOK, SpawnInv, OwnerInv, StopSparesOthers, Crashes, managerVars, serverVars
<1>7. QED
  BY <1>1, <1>2, <1>3, <1>4, <1>5, <1>6

LEMMA SomeoneStartsStep == ASSUME IInv, NEW p \in Servers, SomeoneStarts(p) PROVE IInv'
<1> USE DEF IInv
<1>1. TypeOK'
  BY ManagersAssumption DEF TypeOK, CallInv, SpawnInv, SomeoneStarts, IsNext, managerVars, serverVars, NoServer
<1>2. SpawnInv'
  BY ManagersAssumption DEF TypeOK, SpawnInv, CallInv, SomeoneStarts, IsNext, managerVars, serverVars, NoServer
<1>3. CallInv'
  BY ManagersAssumption DEF TypeOK, SpawnInv, CallInv, Alive, OwnerInv, SomeoneStarts, IsNext, managerVars, serverVars, NoServer
<1>4. OwnerInv'
  BY ManagersAssumption DEF TypeOK, SpawnInv, CallInv, OwnerInv, SomeoneStarts, IsNext, managerVars, serverVars
<1>5. NoOrphans'
  BY ManagersAssumption DEF TypeOK, SpawnInv, CallInv, Alive, OwnerInv, NoOrphans, SomeoneStarts, IsNext, managerVars, serverVars
<1>6. StopSparesOthers'
  BY ManagersAssumption DEF TypeOK, SpawnInv, OwnerInv, StopSparesOthers, SomeoneStarts, IsNext, managerVars, serverVars
<1>7. QED
  BY <1>1, <1>2, <1>3, <1>4, <1>5, <1>6

-----------------------------------------------------------------------------
(* The theorems *)

LEMMA InitIInv == Init => IInv
<1> SUFFICES ASSUME Init PROVE IInv
  OBVIOUS
<1>1. TypeOK
  <2>1. mode \in [Managers -> {"plain", "attach", "force", "reuse"}]
    BY DEF Init
  <2>2. QED
    BY <2>1 DEF Init, TypeOK, NoServer
<1>2. SpawnInv
  BY DEF Init, SpawnInv
<1>3. CallInv
  BY DEF Init, CallInv
<1>4. OwnerInv
  BY ManagersAssumption DEF Init, OwnerInv
<1>5. NoOrphans
  BY DEF Init, NoOrphans
<1>6. StopSparesOthers
  BY ManagersAssumption DEF Init, StopSparesOthers
<1>7. QED
  BY <1>1, <1>2, <1>3, <1>4, <1>5, <1>6 DEF IInv

LEMMA NextIInv == IInv /\ [Next]_vars => IInv'
<1> SUFFICES ASSUME IInv, [Next]_vars PROVE IInv'
  OBVIOUS
<1>1. ASSUME NEW m \in Managers,
             Resolve(m) \/ Attach(m) \/ Start(m) \/ Stop(m) \/ ListFails(m) \/ SpawnFails(m)
      PROVE  IInv'
  BY <1>1, ResolveStep, AttachStep, StartStep, StopStep, ListFailsStep, SpawnFailsStep
<1>2. ASSUME NEW m \in Managers, InCall(m)
      PROVE  IInv'
  BY <1>2, ReplaceStep, GoneStep, GivesUpStep, SpawnStep, ReadsStep, ReadyStep,
     ExitedEarlyStep, TimesOutStep, StopOrderStep DEF InCall
<1>3. ASSUME NEW p \in Servers,
             Serves(p) \/ Exits(p) \/ Crashes(p) \/ SomeoneStarts(p)
      PROVE  IInv'
  BY <1>3, ServesStep, ExitsStep, CrashesStep, SomeoneStartsStep
<1>4. CASE UNCHANGED vars
  BY <1>4 DEF IInv, TypeOK, SpawnInv, CallInv, Alive, OwnerInv, NoOrphans,
     StopSparesOthers, vars, managerVars, serverVars
<1>5. QED
  BY <1>1, <1>2, <1>3, <1>4 DEF Next

\* The invariant holds for any managers, any number of servers and any faults.
THEOREM Inductive == Spec => []IInv
<1>1. QED
  BY InitIInv, NextIInv, PTL DEF Spec

\* Variables keep their types: in particular what a start() returns is a server,
\* never the exception its thread put in the queue.
THEOREM TypeCorrect == Spec => []TypeOK
<1>1. IInv => TypeOK
  BY DEF IInv
<1>2. QED
  BY Inductive, <1>1, PTL

\* No start() leaves a process that its manager would not find again.
THEOREM NoServerIsOrphaned == Spec => []NoOrphans
<1>1. IInv => NoOrphans
  BY DEF IInv
<1>2. QED
  BY Inductive, <1>1, PTL

\* stop() never ends the server of another while one's own is alive, nor when one
\* has only attached.
THEOREM AttachedServersAreSpared == Spec => []StopSparesOthers
<1>1. IInv => StopSparesOthers
  BY DEF IInv
<1>2. QED
  BY Inductive, <1>1, PTL

=============================================================================
