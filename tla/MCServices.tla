----------------------------- MODULE MCServices ------------------------------
(***************************************************************************)
(* What the unit serves over the network, and its console and parameters,  *)
(* on one instance each: part is chosen at the start, and its              *)
(* specification runs while the others rest in an initial state.           *)
(***************************************************************************)
EXTENDS MCEpicsServer, MCTftpServer, ConsoleIO, Parameters

VARIABLE part

(* The unit as it leaves the factory. *)
Factory == [np |-> 0, ethernetMAC |-> 0, ppm |-> 0, flags |-> 0]

epicsRests == UNCHANGED vars
tftpRests == UNCHANGED tftpVars
consoleRests == UNCHANGED consoleVars
parametersRest == UNCHANGED parameterVars

ServicesInit ==
  /\ part \in {"epics", "tftp", "console", "parameters"}
  /\ Init /\ TftpInit /\ ConsoleInit /\ ParametersInit
  \* One initial state is enough for a part that does not run.
  /\ part # "console" => handle = 1
  /\ part # "parameters" => stored.valid

ServicesNext ==
  /\ UNCHANGED part
  /\ \/ part = "epics" /\ Next /\ tftpRests /\ consoleRests /\ parametersRest
     \/ part = "tftp" /\ TftpNext /\ epicsRests /\ consoleRests /\ parametersRest
     \/ part = "console" /\ ConsoleNext /\ epicsRests /\ tftpRests /\ parametersRest
     \/ part = "parameters" /\ ParametersNext /\ epicsRests /\ tftpRests /\ consoleRests

(* A retry gets through at last, and so does a reply to it; the main loop  *)
(* looks after the console for ever, and scans end.                        *)
ServicesSpec ==
  /\ ServicesInit
  /\ [][ServicesNext]_<<vars, tftpVars, consoleVars, parameterVars, part>>
  /\ \A c \in Clients :
       /\ WF_vars(part = "epics" /\ newest[c] > 0 /\ epicsHandler(c, newest[c], TRUE))
       /\ WF_vars(part = "epics" /\ \E reply \in replies[c] : AcceptReply(c, reply))
  /\ WF_consoleVars(part = "console" /\ (TakePacket(TRUE) \/ TakeNothing(TRUE)))
  /\ WF_consoleVars(part = "console" /\ ScanOver)

(* Types of the parts of this instance (epics.c, tftp.c, console.c,        *)
(* systemParameters.c).                                                    *)
ServicesTypeOK == TypeOK /\ TftpTypeOK /\ ConsoleTypeOK /\ ParametersTypeOK

(* Whoever uses the unit hears from it: an IOC that goes on asking has its *)
(* answer, and what was printed leaves (epics.c:424-470, console.c:52-63). *)
ServicesAnswer == Answered /\ OutputLeaves
=============================================================================
