-------------------------- MODULE Lifecycle_proofs --------------------------
(***************************************************************************)
(* Theorems about Lifecycle for any number of worker threads, any port     *)
(* numbers and any number of signals: its types, what main runs with, and  *)
(* how it may end.                                                         *)
(***************************************************************************)
EXTENDS Lifecycle, FiniteSetTheorems, TLAPS

\* A port, as the file and the initializers give it.
IsPort(n) == n \in 0 .. PortMax

\* Before loadFromFile Config holds its initializers, and its ports fit an
\* unsigned short ever after.
ConfigKnown ==
    /\ main = "load" => conf = Defaults
    /\ IsPort(conf["listen_port"]) /\ IsPort(conf["db_port"])

\* main holds the sink's mutex exactly where it logs with workers about.
MainLogs == main \in {"announce", "stopping"} => sink = Main

\* No worker before main starts them, and none that runs after the join.
WorkersWithMain ==
    /\ main \in {"load", "bind", "install"} => \A t \in Workers : worker[t] = "none"
    /\ main \in {"stop", "stopping", "destroying", "exited", "failed"} =>
           \A t \in Workers : worker[t] \in Gone

\* run returns only after stop, which only signal_handler calls.
StopsAreSignals ==
    /\ stopped => signals > 0
    /\ \A t \in Threads : handler[t] # "none" => signals > 0
    /\ \A t \in Workers : worker[t] = "returned" => stopped

IInv ==
    /\ TypeOK
    /\ ConfigKnown
    /\ MainLogs
    /\ WorkersWithMain
    /\ StopsAreSignals
    /\ WholeConfigOrNone
    /\ PortsAsUsed
    /\ DeafOnlyAfterException

-----------------------------------------------------------------------------
(* Settings and ports *)

LEMMA FieldNames ==
    /\ Fields = {"listen_port", "num_threads", "db_port", "other"}
    /\ DOMAIN Order = 1 .. 4
BY DEF Fields, Order

LEMMA Limits ==
    /\ PortMax \in Nat /\ ShortMax \in Nat /\ ShortMin \in Int
    /\ PortMax = 2 * ShortMax + 1 /\ ShortMin = -ShortMax - 1 /\ ShortMax > 0
BY Z3 DEF PortMax, ShortMax, ShortMin

\* What a file can give: ports are ports, and everything is a number.
LEMMA GivenNumbers ==
    ASSUME NEW f \in Fields, NEW v \in Given(f)
    PROVE  /\ v \in Int
           /\ f \in {"listen_port", "db_port"} => IsPort(v)
<1>1. Cardinality(Workers) \in Nat
  BY LifecycleAssumption, FS_CardinalityType
<1>2. CASE f = "num_threads"
  BY <1>1, <1>2 DEF Given
<1>3. CASE f = "other"
  BY <1>3 DEF Given
<1>4. CASE f \in {"listen_port", "db_port"}
  BY <1>4, LifecycleAssumption, Limits DEF Given, IsPort
<1> QED
  BY <1>2, <1>3, <1>4, FieldNames

LEMMA DefaultNumbers ==
    /\ \A f \in Fields : Defaults[f] \in Int
    /\ IsPort(Defaults["listen_port"]) /\ IsPort(Defaults["db_port"])
<1>1. Cardinality(Workers) \in Nat
  BY LifecycleAssumption, FS_CardinalityType
<1> QED
  BY <1>1, LifecycleAssumption, Limits, FieldNames DEF Defaults, IsPort

\* A setting that parseYaml reached could be converted.
LEMMA ReachedIsGood ==
    ASSUME NEW f \in Fields, Reached(f)
    PROVE  file[f] # Bad
<1>1. PICK i \in DOMAIN Order : Order[i] = f /\ \A j \in 1 .. i : file[Order[j]] # Bad
  BY DEF Reached
<1>2. i \in 1 .. i
  BY FieldNames
<1> QED
  BY <1>1, <1>2

\* Every setting is reached in a file without a bad one.
LEMMA GoodIsReached ==
    ASSUME NEW f \in Fields, \A g \in Fields : file[g] # Bad
    PROVE  Reached(f)
<1>1. PICK i \in DOMAIN Order : Order[i] = f
  BY DEF Fields
<1>2. \A j \in 1 .. i : Order[j] \in Fields
  BY FieldNames DEF Fields
<1> QED
  BY <1>1, <1>2 DEF Reached

\* A port goes through a short and comes back.
LEMMA PortRoundTrip ==
    ASSUME NEW p, IsPort(p)
    PROVE  /\ ToPort(ToShort(p)) = p
           /\ ToShort(p) \in ShortMin .. ShortMax
           /\ ToShort(p) = p <=> p <= ShortMax
           /\ ToShort(p) < 0 <=> p > ShortMax
<1>0. p \in Int /\ 0 <= p /\ p < PortMax + 1
  BY Limits DEF IsPort
<1>1. CASE p <= ShortMax
  <2>1. ToShort(p) = p
    BY <1>1 DEF ToShort
  <2>2. p % (PortMax + 1) = p
    BY <1>0, Limits, Z3
  <2> QED
    BY <1>0, <1>1, <2>1, <2>2, Limits DEF ToPort
<1>2. CASE ~(p <= ShortMax)
  <2>1. ToShort(p) = p - (PortMax + 1)
    BY <1>2 DEF ToShort
  <2>2. (p - (PortMax + 1)) % (PortMax + 1) = p
    BY <1>0, Limits, Z3
  <2> QED
    BY <1>0, <1>2, <2>1, <2>2, Limits DEF ToPort
<1> QED
  BY <1>1, <1>2

-----------------------------------------------------------------------------
(* The inductive invariant *)

LEMMA InvInit == Init => IInv
<1> SUFFICES ASSUME Init
             PROVE  IInv
  OBVIOUS
<1>1. /\ \A f \in Fields : file[f] \in Given(f) \cup {Absent, Bad} /\ conf[f] \in Int
      /\ ConfigKnown
  BY DefaultNumbers DEF Init, ConfigKnown
<1>2. TypeOK
  <2>1. \A t \in Workers : sink # t
    BY LifecycleAssumption DEF Init
  <2>2. -1 \in -1 .. PortMax /\ -1 \in ShortMin .. ShortMax /\ 0 \in 0 .. MaxSignals
    BY Limits, LifecycleAssumption
  <2> QED
    BY <1>1, <2>1, <2>2 DEF Init, TypeOK, Gone, Ended, Threads
<1>3. MainLogs /\ WorkersWithMain /\ StopsAreSignals /\ WholeConfigOrNone
      /\ PortsAsUsed /\ DeafOnlyAfterException
  BY DEF Init, MainLogs, WorkersWithMain, StopsAreSignals, WholeConfigOrNone,
         PortsAsUsed, DeafOnlyAfterException
<1> QED
  BY <1>1, <1>2, <1>3 DEF IInv

\* Every step of main, of a worker, of a TLS peer and of signal_handler.
LEMMA InductiveStep == IInv /\ [Next]_vars => IInv'
<1> SUFFICES ASSUME IInv, [Next]_vars
             PROVE  IInv'
  OBVIOUS
<1>i. TypeOK /\ ConfigKnown /\ MainLogs /\ WorkersWithMain /\ StopsAreSignals
      /\ WholeConfigOrNone /\ PortsAsUsed /\ DeafOnlyAfterException
  BY DEF IInv
<1>a. Main \notin Workers /\ Nobody \notin Workers /\ Nobody # Main /\ MaxSignals \in Nat
  BY LifecycleAssumption
<1> USE DEF config, ports, server, process, Gone, Ended, Threads
<1>1. CASE LoadFromFile
  <2>1. \A f \in Fields : conf[f] = Defaults[f]
    BY <1>1, <1>i DEF LoadFromFile, Load, ConfigKnown
  <2>2. \A f \in Fields : conf'[f] = IF Reached(f) /\ file[f] # Absent THEN file[f] ELSE conf[f]
    BY <1>1 DEF LoadFromFile, Load, Parsed
  <2>3. /\ main = "load" /\ main' \in {"bind", "failed"}
        /\ valid_' \in BOOLEAN
        /\ main' = "bind" => \A f \in Fields : file[f] # Bad
        /\ UNCHANGED <<file, ports, worker, server, stopped, acceptThrew, process>>
    BY <1>1 DEF LoadFromFile, Load
  <2>4. ASSUME NEW f \in Fields
        PROVE  /\ conf'[f] \in Int
               /\ f \in {"listen_port", "db_port"} => IsPort(conf'[f])
    <3>1. CASE Reached(f) /\ file[f] # Absent
      <4>1. file[f] \in Given(f)
        BY <1>i, <3>1, ReachedIsGood DEF TypeOK
      <4> QED
        BY <2>2, <3>1, <4>1, GivenNumbers
    <3>2. CASE ~(Reached(f) /\ file[f] # Absent)
      BY <2>1, <2>2, <3>2, DefaultNumbers
    <3> QED
      BY <3>1, <3>2
  <2>5. TypeOK'
    BY <1>i, <2>3, <2>4 DEF TypeOK
  <2>6. ConfigKnown' /\ MainLogs' /\ WorkersWithMain' /\ StopsAreSignals'
    BY <1>i, <2>3, <2>4, FieldNames
       DEF ConfigKnown, MainLogs, WorkersWithMain, StopsAreSignals, IsPort
  <2>7. WholeConfigOrNone'
    BY <2>1, <2>2, <2>3, GoodIsReached DEF WholeConfigOrNone
  <2>8. PortsAsUsed' /\ DeafOnlyAfterException'
    BY <1>i, <2>3 DEF PortsAsUsed, DeafOnlyAfterException
  <2> QED
    BY <2>5, <2>6, <2>7, <2>8 DEF IInv
<1>2. CASE LoadUnparsable
  <2>1. TypeOK' /\ ConfigKnown' /\ MainLogs' /\ WorkersWithMain' /\ StopsAreSignals'
    BY <1>2, <1>i DEF LoadUnparsable, TypeOK, ConfigKnown, MainLogs, WorkersWithMain,
                      StopsAreSignals, IsPort
  <2>2. WholeConfigOrNone' /\ PortsAsUsed' /\ DeafOnlyAfterException'
    BY <1>2, <1>i DEF LoadUnparsable, WholeConfigOrNone, PortsAsUsed,
                      DeafOnlyAfterException
  <2> QED
    BY <2>1, <2>2 DEF IInv
<1>3. CASE Bind
  <2>1. IsPort(conf["listen_port"]) /\ IsPort(conf["db_port"])
    BY <1>i DEF ConfigKnown
  <2>2. /\ main = "bind" /\ main' = "install"
        /\ listening' = conf["listen_port"]
        /\ service' = ToShort(conf["db_port"])
        /\ service' \in ShortMin .. ShortMax
        /\ accepting_' = TRUE /\ acceptPending' = TRUE
        /\ UNCHANGED <<config, worker, stopped, acceptThrew, process>>
    BY <1>3, <2>1, PortRoundTrip DEF Bind
  <2>3. TypeOK'
    BY <1>i, <2>1, <2>2, Limits DEF TypeOK, IsPort
  <2>4. ConfigKnown' /\ MainLogs' /\ WorkersWithMain' /\ StopsAreSignals'
    BY <1>i, <2>2 DEF ConfigKnown, MainLogs, WorkersWithMain, StopsAreSignals, IsPort
  <2>5. WholeConfigOrNone' /\ PortsAsUsed' /\ DeafOnlyAfterException'
    BY <1>i, <2>1, <2>2, PortRoundTrip DEF WholeConfigOrNone, PortsAsUsed, DeafOnlyAfterException
  <2> QED
    BY <2>3, <2>4, <2>5 DEF IInv
<1>4. CASE BindFails
  <2>1. TypeOK'
    BY <1>4, <1>i, <1>a DEF BindFails, TypeOK, MainLogs
  <2>2. ConfigKnown' /\ MainLogs'
    BY <1>4, <1>i, <1>a DEF BindFails, ConfigKnown, MainLogs, IsPort, TypeOK
  <2>3. WorkersWithMain' /\ StopsAreSignals'
    BY <1>4, <1>i, <1>a DEF BindFails, WorkersWithMain, StopsAreSignals,
       TypeOK
  <2>4. WholeConfigOrNone' /\ PortsAsUsed'
    BY <1>4, <1>i, <1>a DEF BindFails, WholeConfigOrNone, PortsAsUsed
  <2>5. DeafOnlyAfterException'
    BY <1>4, <1>i, <1>a DEF BindFails, DeafOnlyAfterException, TypeOK
  <2> QED
    BY <2>1, <2>2, <2>3, <2>4, <2>5 DEF IInv
<1>5. CASE Install
  <2>1. TypeOK'
    BY <1>5, <1>i, <1>a DEF Install, TypeOK, MainLogs
  <2>2. ConfigKnown' /\ MainLogs'
    BY <1>5, <1>i, <1>a DEF Install, ConfigKnown, MainLogs, IsPort, TypeOK
  <2>3. WorkersWithMain' /\ StopsAreSignals'
    BY <1>5, <1>i, <1>a DEF Install, WorkersWithMain, StopsAreSignals, TypeOK
  <2>4. WholeConfigOrNone' /\ PortsAsUsed'
    BY <1>5, <1>i, <1>a DEF Install, WholeConfigOrNone, PortsAsUsed
  <2>5. DeafOnlyAfterException'
    BY <1>5, <1>i, <1>a DEF Install, DeafOnlyAfterException, TypeOK
  <2> QED
    BY <2>1, <2>2, <2>3, <2>4, <2>5 DEF IInv
<1>6. ASSUME NEW w \in Workers, Spawn(w)
      PROVE  IInv'
  <2>1. TypeOK'
    BY <1>6, <1>i, <1>a DEF Spawn, MainGo, TypeOK, MainLogs
  <2>2. ConfigKnown' /\ MainLogs'
    BY <1>6, <1>i, <1>a DEF Spawn, MainGo, ConfigKnown, MainLogs, IsPort,
       TypeOK
  <2>3. WorkersWithMain' /\ StopsAreSignals'
    BY <1>6, <1>i, <1>a DEF Spawn, MainGo, WorkersWithMain, StopsAreSignals,
       TypeOK
  <2>4. WholeConfigOrNone' /\ PortsAsUsed'
    BY <1>6, <1>i, <1>a DEF Spawn, MainGo, WholeConfigOrNone, PortsAsUsed
  <2>5. DeafOnlyAfterException'
    BY <1>6, <1>i, <1>a DEF Spawn, MainGo, DeafOnlyAfterException, TypeOK
  <2> QED
    BY <2>1, <2>2, <2>3, <2>4, <2>5 DEF IInv
<1>7. CASE SpawnFails
  <2>1. TypeOK'
    BY <1>7, <1>i, <1>a DEF SpawnFails, SpawnThrows, MainGo, quiet, Spawned,
       TypeOK, MainLogs
  <2>2. ConfigKnown' /\ MainLogs'
    BY <1>7, <1>i, <1>a DEF SpawnFails, SpawnThrows, MainGo, quiet, Spawned,
       ConfigKnown, MainLogs, IsPort, TypeOK
  <2>3. WorkersWithMain' /\ StopsAreSignals'
    BY <1>7, <1>i, <1>a DEF SpawnFails, SpawnThrows, MainGo, quiet, Spawned,
       WorkersWithMain, StopsAreSignals, TypeOK
  <2>4. WholeConfigOrNone' /\ PortsAsUsed'
    BY <1>7, <1>i, <1>a DEF SpawnFails, SpawnThrows, MainGo, quiet, Spawned,
       WholeConfigOrNone, PortsAsUsed
  <2>5. DeafOnlyAfterException'
    BY <1>7, <1>i, <1>a DEF SpawnFails, SpawnThrows, MainGo, quiet, Spawned,
       DeafOnlyAfterException, TypeOK
  <2> QED
    BY <2>1, <2>2, <2>3, <2>4, <2>5 DEF IInv
<1>8. CASE Announce
  <2>1. TypeOK'
    BY <1>8, <1>i, <1>a DEF Announce, MainGo, quiet, TypeOK, MainLogs
  <2>2. ConfigKnown' /\ MainLogs'
    BY <1>8, <1>i, <1>a DEF Announce, MainGo, quiet, ConfigKnown, MainLogs,
       IsPort, TypeOK
  <2>3. WorkersWithMain' /\ StopsAreSignals'
    BY <1>8, <1>i, <1>a DEF Announce, MainGo, quiet, WorkersWithMain,
       StopsAreSignals, TypeOK
  <2>4. WholeConfigOrNone' /\ PortsAsUsed'
    BY <1>8, <1>i, <1>a DEF Announce, MainGo, quiet, WholeConfigOrNone,
       PortsAsUsed
  <2>5. DeafOnlyAfterException'
    BY <1>8, <1>i, <1>a DEF Announce, MainGo, quiet, DeafOnlyAfterException,
       TypeOK
  <2> QED
    BY <2>1, <2>2, <2>3, <2>4, <2>5 DEF IInv
<1>9. CASE Announced
  <2>1. TypeOK'
    BY <1>9, <1>i, <1>a DEF Announced, MainGo, quiet, TypeOK, MainLogs
  <2>2. ConfigKnown' /\ MainLogs'
    BY <1>9, <1>i, <1>a DEF Announced, MainGo, quiet, ConfigKnown, MainLogs,
       IsPort, TypeOK
  <2>3. WorkersWithMain' /\ StopsAreSignals'
    BY <1>9, <1>i, <1>a DEF Announced, MainGo, quiet, WorkersWithMain,
       StopsAreSignals, TypeOK
  <2>4. WholeConfigOrNone' /\ PortsAsUsed'
    BY <1>9, <1>i, <1>a DEF Announced, MainGo, quiet, WholeConfigOrNone,
       PortsAsUsed
  <2>5. DeafOnlyAfterException'
    BY <1>9, <1>i, <1>a DEF Announced, MainGo, quiet, DeafOnlyAfterException,
       TypeOK
  <2> QED
    BY <2>1, <2>2, <2>3, <2>4, <2>5 DEF IInv
<1>10. CASE Join
  <2>1. TypeOK'
    BY <1>10, <1>i, <1>a DEF Join, MainGo, quiet, TypeOK, MainLogs
  <2>2. ConfigKnown' /\ MainLogs'
    BY <1>10, <1>i, <1>a DEF Join, MainGo, quiet, ConfigKnown, MainLogs,
       IsPort, TypeOK
  <2>3. WorkersWithMain' /\ StopsAreSignals'
    BY <1>10, <1>i, <1>a DEF Join, MainGo, quiet, WorkersWithMain,
       StopsAreSignals, TypeOK
  <2>4. WholeConfigOrNone' /\ PortsAsUsed'
    BY <1>10, <1>i, <1>a DEF Join, MainGo, quiet, WholeConfigOrNone,
       PortsAsUsed
  <2>5. DeafOnlyAfterException'
    BY <1>10, <1>i, <1>a DEF Join, MainGo, quiet, DeafOnlyAfterException,
       TypeOK
  <2> QED
    BY <2>1, <2>2, <2>3, <2>4, <2>5 DEF IInv
<1>11. CASE Stop
  <2>1. TypeOK'
    BY <1>11, <1>i, <1>a DEF Stop, MainGo, quiet, TypeOK, MainLogs
  <2>2. ConfigKnown' /\ MainLogs'
    BY <1>11, <1>i, <1>a DEF Stop, MainGo, quiet, ConfigKnown, MainLogs,
       IsPort, TypeOK
  <2>3. WorkersWithMain' /\ StopsAreSignals'
    BY <1>11, <1>i, <1>a DEF Stop, MainGo, quiet, WorkersWithMain,
       StopsAreSignals, TypeOK
  <2>4. WholeConfigOrNone' /\ PortsAsUsed'
    BY <1>11, <1>i, <1>a DEF Stop, MainGo, quiet, WholeConfigOrNone,
       PortsAsUsed
  <2>5. DeafOnlyAfterException'
    BY <1>11, <1>i, <1>a DEF Stop, MainGo, quiet, DeafOnlyAfterException,
       TypeOK
  <2> QED
    BY <2>1, <2>2, <2>3, <2>4, <2>5 DEF IInv
<1>12. CASE Exit
  <2>1. TypeOK'
    BY <1>12, <1>i, <1>a DEF Exit, MainGo, quiet, TypeOK, MainLogs
  <2>2. ConfigKnown' /\ MainLogs'
    BY <1>12, <1>i, <1>a DEF Exit, MainGo, quiet, ConfigKnown, MainLogs,
       IsPort, TypeOK
  <2>3. WorkersWithMain' /\ StopsAreSignals'
    BY <1>12, <1>i, <1>a DEF Exit, MainGo, quiet, WorkersWithMain,
       StopsAreSignals, TypeOK
  <2>4. WholeConfigOrNone' /\ PortsAsUsed'
    BY <1>12, <1>i, <1>a DEF Exit, MainGo, quiet, WholeConfigOrNone,
       PortsAsUsed
  <2>5. DeafOnlyAfterException'
    BY <1>12, <1>i, <1>a DEF Exit, MainGo, quiet, DeafOnlyAfterException,
       TypeOK
  <2> QED
    BY <2>1, <2>2, <2>3, <2>4, <2>5 DEF IInv
<1>13. CASE Destroyed
  <2>1. TypeOK'
    BY <1>13, <1>i, <1>a DEF Destroyed, MainGo, quiet, TypeOK, MainLogs
  <2>2. ConfigKnown' /\ MainLogs'
    BY <1>13, <1>i, <1>a DEF Destroyed, MainGo, quiet, ConfigKnown, MainLogs,
       IsPort, TypeOK
  <2>3. WorkersWithMain' /\ StopsAreSignals'
    BY <1>13, <1>i, <1>a DEF Destroyed, MainGo, quiet, WorkersWithMain,
       StopsAreSignals, TypeOK
  <2>4. WholeConfigOrNone' /\ PortsAsUsed'
    BY <1>13, <1>i, <1>a DEF Destroyed, MainGo, quiet, WholeConfigOrNone,
       PortsAsUsed
  <2>5. DeafOnlyAfterException'
    BY <1>13, <1>i, <1>a DEF Destroyed, MainGo, quiet,
       DeafOnlyAfterException, TypeOK
  <2> QED
    BY <2>1, <2>2, <2>3, <2>4, <2>5 DEF IInv
<1>14. ASSUME NEW w \in Workers, AcceptBegin(w)
       PROVE  IInv'
  <2>1. TypeOK'
    BY <1>14, <1>i, <1>a DEF AcceptBegin, Work, Free, TypeOK, MainLogs
  <2>2. ConfigKnown' /\ MainLogs'
    BY <1>14, <1>i, <1>a DEF AcceptBegin, Work, Free, ConfigKnown, MainLogs,
       IsPort, TypeOK
  <2>3. WorkersWithMain' /\ StopsAreSignals'
    BY <1>14, <1>i, <1>a DEF AcceptBegin, Work, Free, WorkersWithMain,
       StopsAreSignals, TypeOK
  <2>4. WholeConfigOrNone' /\ PortsAsUsed'
    BY <1>14, <1>i, <1>a DEF AcceptBegin, Work, Free, WholeConfigOrNone,
       PortsAsUsed
  <2>5. DeafOnlyAfterException'
    BY <1>14, <1>i, <1>a DEF AcceptBegin, Work, Free, DeafOnlyAfterException,
       TypeOK
  <2> QED
    BY <2>1, <2>2, <2>3, <2>4, <2>5 DEF IInv
<1>15. ASSUME NEW w \in Workers, AcceptEnd(w)
       PROVE  IInv'
  <2>1. TypeOK'
    BY <1>15, <1>i, <1>a DEF AcceptEnd, Work, Free, TypeOK, MainLogs
  <2>2. ConfigKnown' /\ MainLogs'
    BY <1>15, <1>i, <1>a DEF AcceptEnd, Work, Free, ConfigKnown, MainLogs,
       IsPort, TypeOK
  <2>3. WorkersWithMain' /\ StopsAreSignals'
    BY <1>15, <1>i, <1>a DEF AcceptEnd, Work, Free, WorkersWithMain,
       StopsAreSignals, TypeOK
  <2>4. WholeConfigOrNone' /\ PortsAsUsed'
    BY <1>15, <1>i, <1>a DEF AcceptEnd, Work, Free, WholeConfigOrNone,
       PortsAsUsed
  <2>5. DeafOnlyAfterException'
    BY <1>15, <1>i, <1>a DEF AcceptEnd, Work, Free, DeafOnlyAfterException,
       TypeOK
  <2> QED
    BY <2>1, <2>2, <2>3, <2>4, <2>5 DEF IInv
<1>16. ASSUME NEW w \in Workers, AcceptThrows(w)
       PROVE  IInv'
  <2>1. TypeOK'
    BY <1>16, <1>i, <1>a DEF AcceptThrows, Work, Free, TypeOK, MainLogs
  <2>2. ConfigKnown' /\ MainLogs'
    BY <1>16, <1>i, <1>a DEF AcceptThrows, Work, Free, ConfigKnown, MainLogs,
       IsPort, TypeOK
  <2>3. WorkersWithMain' /\ StopsAreSignals'
    BY <1>16, <1>i, <1>a DEF AcceptThrows, Work, Free, WorkersWithMain,
       StopsAreSignals, TypeOK
  <2>4. WholeConfigOrNone' /\ PortsAsUsed'
    BY <1>16, <1>i, <1>a DEF AcceptThrows, Work, Free, WholeConfigOrNone,
       PortsAsUsed
  <2>5. DeafOnlyAfterException'
    BY <1>16, <1>i, <1>a DEF AcceptThrows, Work, Free, DeafOnlyAfterException,
       TypeOK
  <2> QED
    BY <2>1, <2>2, <2>3, <2>4, <2>5 DEF IInv
<1>17. ASSUME NEW w \in Workers, HandlerBegin(w)
       PROVE  IInv'
  <2>1. TypeOK'
    BY <1>17, <1>i, <1>a DEF HandlerBegin, Pass, Work, Free, TypeOK, MainLogs
  <2>2. ConfigKnown' /\ MainLogs'
    BY <1>17, <1>i, <1>a DEF HandlerBegin, Pass, Work, Free, ConfigKnown,
       MainLogs, IsPort, TypeOK
  <2>3. WorkersWithMain' /\ StopsAreSignals'
    BY <1>17, <1>i, <1>a DEF HandlerBegin, Pass, Work, Free, WorkersWithMain,
       StopsAreSignals, TypeOK
  <2>4. WholeConfigOrNone' /\ PortsAsUsed'
    BY <1>17, <1>i, <1>a DEF HandlerBegin, Pass, Work, Free, WholeConfigOrNone,
       PortsAsUsed
  <2>5. DeafOnlyAfterException'
    BY <1>17, <1>i, <1>a DEF HandlerBegin, Pass, Work, Free,
       DeafOnlyAfterException, TypeOK
  <2> QED
    BY <2>1, <2>2, <2>3, <2>4, <2>5 DEF IInv
<1>18. ASSUME NEW w \in Workers, HandlerLogs(w)
       PROVE  IInv'
  <2>1. TypeOK'
    BY <1>18, <1>i, <1>a DEF HandlerLogs, Log, Work, Free, TypeOK, MainLogs
  <2>2. ConfigKnown' /\ MainLogs'
    BY <1>18, <1>i, <1>a DEF HandlerLogs, Log, Work, Free, ConfigKnown,
       MainLogs, IsPort, TypeOK
  <2>3. WorkersWithMain' /\ StopsAreSignals'
    BY <1>18, <1>i, <1>a DEF HandlerLogs, Log, Work, Free, WorkersWithMain,
       StopsAreSignals, TypeOK
  <2>4. WholeConfigOrNone' /\ PortsAsUsed'
    BY <1>18, <1>i, <1>a DEF HandlerLogs, Log, Work, Free, WholeConfigOrNone,
       PortsAsUsed
  <2>5. DeafOnlyAfterException'
    BY <1>18, <1>i, <1>a DEF HandlerLogs, Log, Work, Free,
       DeafOnlyAfterException, TypeOK
  <2> QED
    BY <2>1, <2>2, <2>3, <2>4, <2>5 DEF IInv
<1>19. ASSUME NEW w \in Workers, HandlerEnd(w)
       PROVE  IInv'
  <2>1. TypeOK'
    BY <1>19, <1>i, <1>a DEF HandlerEnd, Logged, Pass, Work, Free, TypeOK,
       MainLogs
  <2>2. ConfigKnown' /\ MainLogs'
    BY <1>19, <1>i, <1>a DEF HandlerEnd, Logged, Pass, Work, Free, ConfigKnown,
       MainLogs, IsPort, TypeOK
  <2>3. WorkersWithMain' /\ StopsAreSignals'
    BY <1>19, <1>i, <1>a DEF HandlerEnd, Logged, Pass, Work, Free,
       WorkersWithMain, StopsAreSignals, TypeOK
  <2>4. WholeConfigOrNone' /\ PortsAsUsed'
    BY <1>19, <1>i, <1>a DEF HandlerEnd, Logged, Pass, Work, Free,
       WholeConfigOrNone, PortsAsUsed
  <2>5. DeafOnlyAfterException'
    BY <1>19, <1>i, <1>a DEF HandlerEnd, Logged, Pass, Work, Free,
       DeafOnlyAfterException, TypeOK
  <2> QED
    BY <2>1, <2>2, <2>3, <2>4, <2>5 DEF IInv
<1>20. ASSUME NEW w \in Workers, HandlerThrows(w)
       PROVE  IInv'
  <2>1. TypeOK'
    BY <1>20, <1>i, <1>a DEF HandlerThrows, Pass, Work, Free, TypeOK, MainLogs
  <2>2. ConfigKnown' /\ MainLogs'
    BY <1>20, <1>i, <1>a DEF HandlerThrows, Pass, Work, Free, ConfigKnown,
       MainLogs, IsPort, TypeOK
  <2>3. WorkersWithMain' /\ StopsAreSignals'
    BY <1>20, <1>i, <1>a DEF HandlerThrows, Pass, Work, Free, WorkersWithMain,
       StopsAreSignals, TypeOK
  <2>4. WholeConfigOrNone' /\ PortsAsUsed'
    BY <1>20, <1>i, <1>a DEF HandlerThrows, Pass, Work, Free, WholeConfigOrNone,
       PortsAsUsed
  <2>5. DeafOnlyAfterException'
    BY <1>20, <1>i, <1>a DEF HandlerThrows, Pass, Work, Free,
       DeafOnlyAfterException, TypeOK
  <2> QED
    BY <2>1, <2>2, <2>3, <2>4, <2>5 DEF IInv
<1>21. ASSUME NEW w \in Workers, Catch(w)
       PROVE  IInv'
  <2>1. TypeOK'
    BY <1>21, <1>i, <1>a DEF Catch, Log, Work, Free, TypeOK, MainLogs
  <2>2. ConfigKnown' /\ MainLogs'
    BY <1>21, <1>i, <1>a DEF Catch, Log, Work, Free, ConfigKnown, MainLogs,
       IsPort, TypeOK
  <2>3. WorkersWithMain' /\ StopsAreSignals'
    BY <1>21, <1>i, <1>a DEF Catch, Log, Work, Free, WorkersWithMain,
       StopsAreSignals, TypeOK
  <2>4. WholeConfigOrNone' /\ PortsAsUsed'
    BY <1>21, <1>i, <1>a DEF Catch, Log, Work, Free, WholeConfigOrNone,
       PortsAsUsed
  <2>5. DeafOnlyAfterException'
    BY <1>21, <1>i, <1>a DEF Catch, Log, Work, Free, DeafOnlyAfterException,
       TypeOK
  <2> QED
    BY <2>1, <2>2, <2>3, <2>4, <2>5 DEF IInv
<1>22. ASSUME NEW w \in Workers, Caught(w)
       PROVE  IInv'
  <2>1. TypeOK'
    BY <1>22, <1>i, <1>a DEF Caught, Logged, Work, Free, TypeOK, MainLogs
  <2>2. ConfigKnown' /\ MainLogs'
    BY <1>22, <1>i, <1>a DEF Caught, Logged, Work, Free, ConfigKnown, MainLogs,
       IsPort, TypeOK
  <2>3. WorkersWithMain' /\ StopsAreSignals'
    BY <1>22, <1>i, <1>a DEF Caught, Logged, Work, Free, WorkersWithMain,
       StopsAreSignals, TypeOK
  <2>4. WholeConfigOrNone' /\ PortsAsUsed'
    BY <1>22, <1>i, <1>a DEF Caught, Logged, Work, Free, WholeConfigOrNone,
       PortsAsUsed
  <2>5. DeafOnlyAfterException'
    BY <1>22, <1>i, <1>a DEF Caught, Logged, Work, Free, DeafOnlyAfterException,
       TypeOK
  <2> QED
    BY <2>1, <2>2, <2>3, <2>4, <2>5 DEF IInv
<1>23. ASSUME NEW w \in Workers, HandlerCloses(w)
       PROVE  IInv'
  <2>1. TypeOK'
    BY <1>23, <1>i, <1>a DEF HandlerCloses, Pass, Work, Free, TypeOK, MainLogs
  <2>2. ConfigKnown' /\ MainLogs'
    BY <1>23, <1>i, <1>a DEF HandlerCloses, Pass, Work, Free, ConfigKnown,
       MainLogs, IsPort, TypeOK
  <2>3. WorkersWithMain' /\ StopsAreSignals'
    BY <1>23, <1>i, <1>a DEF HandlerCloses, Pass, Work, Free, WorkersWithMain,
       StopsAreSignals, TypeOK
  <2>4. WholeConfigOrNone' /\ PortsAsUsed'
    BY <1>23, <1>i, <1>a DEF HandlerCloses, Pass, Work, Free, WholeConfigOrNone,
       PortsAsUsed
  <2>5. DeafOnlyAfterException'
    BY <1>23, <1>i, <1>a DEF HandlerCloses, Pass, Work, Free,
       DeafOnlyAfterException, TypeOK
  <2> QED
    BY <2>1, <2>2, <2>3, <2>4, <2>5 DEF IInv
<1>24. ASSUME NEW w \in Workers, Closed(w)
       PROVE  IInv'
  <2>1. TypeOK'
    BY <1>24, <1>i, <1>a DEF Closed, Pass, Work, Free, TypeOK, MainLogs
  <2>2. ConfigKnown' /\ MainLogs'
    BY <1>24, <1>i, <1>a DEF Closed, Pass, Work, Free, ConfigKnown, MainLogs,
       IsPort, TypeOK
  <2>3. WorkersWithMain' /\ StopsAreSignals'
    BY <1>24, <1>i, <1>a DEF Closed, Pass, Work, Free, WorkersWithMain,
       StopsAreSignals, TypeOK
  <2>4. WholeConfigOrNone' /\ PortsAsUsed'
    BY <1>24, <1>i, <1>a DEF Closed, Pass, Work, Free, WholeConfigOrNone,
       PortsAsUsed
  <2>5. DeafOnlyAfterException'
    BY <1>24, <1>i, <1>a DEF Closed, Pass, Work, Free, DeafOnlyAfterException,
       TypeOK
  <2> QED
    BY <2>1, <2>2, <2>3, <2>4, <2>5 DEF IInv
<1>25. ASSUME NEW w \in Workers, Return(w)
       PROVE  IInv'
  <2>1. TypeOK'
    BY <1>25, <1>i, <1>a DEF Return, Pass, Work, Free, TypeOK, MainLogs
  <2>2. ConfigKnown' /\ MainLogs'
    BY <1>25, <1>i, <1>a DEF Return, Pass, Work, Free, ConfigKnown, MainLogs,
       IsPort, TypeOK
  <2>3. WorkersWithMain' /\ StopsAreSignals'
    BY <1>25, <1>i, <1>a DEF Return, Pass, Work, Free, WorkersWithMain,
       StopsAreSignals, TypeOK
  <2>4. WholeConfigOrNone' /\ PortsAsUsed'
    BY <1>25, <1>i, <1>a DEF Return, Pass, Work, Free, WholeConfigOrNone,
       PortsAsUsed
  <2>5. DeafOnlyAfterException'
    BY <1>25, <1>i, <1>a DEF Return, Pass, Work, Free, DeafOnlyAfterException,
       TypeOK
  <2> QED
    BY <2>1, <2>2, <2>3, <2>4, <2>5 DEF IInv
<1>26. ASSUME NEW t \in Threads, Interrupt(t)
       PROVE  IInv'
  <2>1. TypeOK'
    BY <1>26, <1>i, <1>a DEF Interrupt, Free, Alive, TypeOK, MainLogs
  <2>2. ConfigKnown' /\ MainLogs'
    BY <1>26, <1>i, <1>a DEF Interrupt, Free, Alive, ConfigKnown, MainLogs,
       IsPort, TypeOK
  <2>3. WorkersWithMain' /\ StopsAreSignals'
    BY <1>26, <1>i, <1>a DEF Interrupt, Free, Alive, WorkersWithMain,
       StopsAreSignals, TypeOK
  <2>4. WholeConfigOrNone' /\ PortsAsUsed'
    BY <1>26, <1>i, <1>a DEF Interrupt, Free, Alive, WholeConfigOrNone,
       PortsAsUsed
  <2>5. DeafOnlyAfterException'
    BY <1>26, <1>i, <1>a DEF Interrupt, Free, Alive, DeafOnlyAfterException,
       TypeOK
  <2> QED
    BY <2>1, <2>2, <2>3, <2>4, <2>5 DEF IInv
<1>27. ASSUME NEW t \in Threads, HandleLog(t)
       PROVE  IInv'
  <2>1. TypeOK'
    BY <1>27, <1>i, <1>a DEF HandleLog, Handle, TypeOK, MainLogs
  <2>2. ConfigKnown' /\ MainLogs'
    BY <1>27, <1>i, <1>a DEF HandleLog, Handle, ConfigKnown, MainLogs, IsPort,
       TypeOK
  <2>3. WorkersWithMain' /\ StopsAreSignals'
    BY <1>27, <1>i, <1>a DEF HandleLog, Handle, WorkersWithMain,
       StopsAreSignals, TypeOK
  <2>4. WholeConfigOrNone' /\ PortsAsUsed'
    BY <1>27, <1>i, <1>a DEF HandleLog, Handle, WholeConfigOrNone,
       PortsAsUsed
  <2>5. DeafOnlyAfterException'
    BY <1>27, <1>i, <1>a DEF HandleLog, Handle, DeafOnlyAfterException, TypeOK
  <2> QED
    BY <2>1, <2>2, <2>3, <2>4, <2>5 DEF IInv
<1>28. ASSUME NEW t \in Threads, HandleShutdown(t)
       PROVE  IInv'
  <2>1. TypeOK'
    BY <1>28, <1>i, <1>a DEF HandleShutdown, Handle, TypeOK, MainLogs
  <2>2. ConfigKnown' /\ MainLogs'
    BY <1>28, <1>i, <1>a DEF HandleShutdown, Handle, ConfigKnown, MainLogs,
       IsPort, TypeOK
  <2>3. WorkersWithMain' /\ StopsAreSignals'
    BY <1>28, <1>i, <1>a DEF HandleShutdown, Handle, WorkersWithMain,
       StopsAreSignals, TypeOK
  <2>4. WholeConfigOrNone' /\ PortsAsUsed'
    BY <1>28, <1>i, <1>a DEF HandleShutdown, Handle, WholeConfigOrNone,
       PortsAsUsed
  <2>5. DeafOnlyAfterException'
    BY <1>28, <1>i, <1>a DEF HandleShutdown, Handle, DeafOnlyAfterException,
       TypeOK
  <2> QED
    BY <2>1, <2>2, <2>3, <2>4, <2>5 DEF IInv
<1>29. ASSUME NEW t \in Threads, HandleReport(t)
       PROVE  IInv'
  <2>1. TypeOK'
    BY <1>29, <1>i, <1>a DEF HandleReport, Handle, TypeOK, MainLogs
  <2>2. ConfigKnown' /\ MainLogs'
    BY <1>29, <1>i, <1>a DEF HandleReport, Handle, ConfigKnown, MainLogs,
       IsPort, TypeOK
  <2>3. WorkersWithMain' /\ StopsAreSignals'
    BY <1>29, <1>i, <1>a DEF HandleReport, Handle, WorkersWithMain,
       StopsAreSignals, TypeOK
  <2>4. WholeConfigOrNone' /\ PortsAsUsed'
    BY <1>29, <1>i, <1>a DEF HandleReport, Handle, WholeConfigOrNone,
       PortsAsUsed
  <2>5. DeafOnlyAfterException'
    BY <1>29, <1>i, <1>a DEF HandleReport, Handle, DeafOnlyAfterException,
       TypeOK
  <2> QED
    BY <2>1, <2>2, <2>3, <2>4, <2>5 DEF IInv
<1>30. ASSUME NEW t \in Threads, HandleStop(t)
       PROVE  IInv'
  <2>1. TypeOK'
    BY <1>30, <1>i, <1>a DEF HandleStop, Handle, TypeOK, MainLogs
  <2>2. ConfigKnown' /\ MainLogs'
    BY <1>30, <1>i, <1>a DEF HandleStop, Handle, ConfigKnown, MainLogs, IsPort,
       TypeOK
  <2>3. WorkersWithMain' /\ StopsAreSignals'
    BY <1>30, <1>i, <1>a DEF HandleStop, Handle, WorkersWithMain,
       StopsAreSignals, TypeOK
  <2>4. WholeConfigOrNone' /\ PortsAsUsed'
    BY <1>30, <1>i, <1>a DEF HandleStop, Handle, WholeConfigOrNone,
       PortsAsUsed
  <2>5. DeafOnlyAfterException'
    BY <1>30, <1>i, <1>a DEF HandleStop, Handle, DeafOnlyAfterException, TypeOK
  <2> QED
    BY <2>1, <2>2, <2>3, <2>4, <2>5 DEF IInv
<1>31. CASE UNCHANGED vars
  BY <1>31, <1>i DEF IInv, vars, TypeOK, ConfigKnown, MainLogs, WorkersWithMain,
                    StopsAreSignals, WholeConfigOrNone, PortsAsUsed,
                    DeafOnlyAfterException, IsPort
<1> QED
  BY <1>1, <1>2, <1>3, <1>4, <1>5, <1>6, <1>7, <1>8, <1>9, <1>10, <1>11,
     <1>12, <1>13, <1>14, <1>15, <1>16, <1>17, <1>18, <1>19, <1>20, <1>21,
     <1>22, <1>23, <1>24, <1>25, <1>26, <1>27, <1>28, <1>29, <1>30, <1>31
     DEF Next, MainStep, WorkerStep, PeerStep, HandleSignal

LEMMA Inductive == Spec => []IInv
BY InvInit, InductiveStep, PTL DEF Spec

-----------------------------------------------------------------------------
(* Theorems *)

\* Every variable keeps its type, and a worker that holds the log sink's mutex
\* is logging, for any number of threads and signals.
THEOREM LifecycleTypeCorrect == Spec => []TypeOK
<1>1. IInv => TypeOK
  BY DEF IInv
<1> QED
  BY <1>1, Inductive, PTL

\* main never serves with part of a configuration file.  Whatever port is
\* configured, the proxy listens on it, although it passes through a short.
THEOREM ConfigIsKept == Spec => []ConfigTakesEffect
<1>1. IInv => ConfigTakesEffect
  BY DEF IInv, ConfigTakesEffect
<1> QED
  BY <1>1, Inductive, PTL

\* main does not destroy the io_context and the server under a running worker,
\* and returns 0 only after a signal, or when no thread was configured, or when
\* exceptions have ended all of them.
THEOREM MainEndsInOrder == Spec => []EndsInOrder
<1>1. IInv => NoWorkerOutlivesMain
  BY DEF IInv, WorkersWithMain, NoWorkerOutlivesMain
<1>2. IInv => ExitHasAReason
  BY DEF IInv, WorkersWithMain, StopsAreSignals, ExitHasAReason, Spawned, Gone
<1>3. IInv => EndsInOrder
  BY <1>1, <1>2 DEF EndsInOrder
<1> QED
  BY <1>3, Inductive, PTL

\* A proxy that should accept and does not has lost its accept to an exception
\* in the accept handler.
THEOREM AcceptLostToException == Spec => []DeafOnlyAfterException
<1>1. IInv => DeafOnlyAfterException
  BY DEF IInv
<1> QED
  BY <1>1, Inductive, PTL

=============================================================================
