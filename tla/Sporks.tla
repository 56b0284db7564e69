------------------------------- MODULE Sporks -------------------------------
(***************************************************************************)
(* Sporks (spork.cpp): parameters signed by the holder of the spork key,   *)
(* received in any order and any number of times, kept in memory, written  *)
(* to the spork database and loaded from it after a restart.               *)
(*                                                                         *)
(* The node does not hold the key, so UpdateSpork does not run.  Messages  *)
(* with an unknown number or a bad signature change nothing.  The test for *)
(* a signing time in the future compares with 3600 times the current time  *)
(* and refuses nothing.                                                    *)
(***************************************************************************)
EXTENDS Integers, FiniteSets

CONSTANTS SporkIDs,
          SporkMessages,     \* signed so far: [nSporkID, nValue, nTimeSigned]
          Absent

ASSUME SporksAssumption ==
    /\ SporkMessages \subseteq [nSporkID : SporkIDs, nValue : {"on", "off"}, nTimeSigned : Nat]
    \* the key holder does not sign twice in one second
    /\ \A m, n \in SporkMessages :
          m.nSporkID = n.nSporkID /\ m.nTimeSigned = n.nTimeSigned => m = n
    /\ Absent \notin SporkMessages

VARIABLES mapSporksActive,   \* per number the message in force, or Absent
          sporkDB,           \* pSporkDB
          unwritten          \* the message between memory and database, or Absent

sporkVars == <<mapSporksActive, sporkDB, unwritten>>

SporksInit ==
    /\ mapSporksActive = [i \in SporkIDs |-> Absent]
    /\ sporkDB = mapSporksActive
    /\ unwritten = Absent

Newer_First(m, held) == held = Absent
Newer(m, held) == IF held = Absent THEN TRUE ELSE held.nTimeSigned < m.nTimeSigned

\* A "spork" message up to the write; the message thread then writes it.
ProcessSpork(m) ==
    /\ unwritten = Absent
    /\ Newer(m, mapSporksActive[m.nSporkID])
    /\ mapSporksActive' = [mapSporksActive EXCEPT ![m.nSporkID] = m]
    /\ unwritten' = m
    /\ UNCHANGED sporkDB

\* The database after WriteSpork.
WriteSpork(m) == [sporkDB EXCEPT ![m.nSporkID] = m]

\* The write, which may fail.
Write ==
    /\ unwritten # Absent /\ unwritten' = Absent
    /\ sporkDB' \in {WriteSpork(unwritten), sporkDB}
    /\ UNCHANGED mapSporksActive

LoadSporksFromDB ==
    /\ mapSporksActive' = sporkDB /\ unwritten' = Absent
    /\ UNCHANGED sporkDB

\* GetSporkValue and IsSporkActive, with the default of each spork "on".
IsSporkActive(i) == mapSporksActive[i] = Absent \/ mapSporksActive[i].nValue = "on"
=============================================================================
