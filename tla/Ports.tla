-------------------------------- MODULE Ports --------------------------------
(***************************************************************************)
(* Finding and changing the connection: the table of ports, ConnectPort,   *)
(* DwFindPort, DwListDevices, DeviceCommand and HandleCommand.  An action  *)
(* goes as far as the next thing that can fail.                            *)
(***************************************************************************)
EXTENDS Integers

CONSTANTS
  PortCount,
  Kind,        \* "s" for a serial port, "u" for a USB adapter, by port
  Index,       \* the number in a port's name
  Chip,        \* the chip at its other end, if any: an index to Characteristics
  NoChip,
  Unsupported, \* a chip whose signature is not in the table
  MaxFaults    \* bound: exchanges that fail

Port == 1..PortCount
None == -1                 \* CurrentPort and character, when there is none
Right == 1                 \* a baud rate at which chips answer, and one at which none does
Wrong == 2
Bauds == {Right, Wrong}
AnyIndex == -1
AnyKind  == "any"

\* What the constants are assumed to be.
PortsAssumption ==
  /\ PortCount \in Nat /\ MaxFaults \in Nat
  /\ Kind \in [Port -> {"s", "u"}] /\ Index \in [Port -> Nat]
  /\ Chip \in [Port -> Nat \cup {NoChip, Unsupported}]

VARIABLES
  port,        \* what is known of each port
  CurrentPort,
  owner,       \* the port whose chip PC and the cached registers were read from
  at, i,       \* the place in the procedure, and its loop counter
  request,     \* what the user has asked for
  did,         \* the port that the latest handler has worked with
  chosen,      \* the port that "Connected to" has named last
  faults

vars == <<port, CurrentPort, owner, at, i, request, did, chosen, faults>>

Ask(cmd, kind, index, baud) == [cmd |-> cmd, kind |-> kind, index |-> index, baud |-> baud]
Nothing == Ask("none", AnyKind, AnyIndex, 0)
-----------------------------------------------------------------------------
(* The user's requests.                                                    *)
Begin(r, place) ==
  /\ request' = r /\ at' = place /\ i' = 1
  /\ UNCHANGED <<port, CurrentPort, owner, did, chosen, faults>>

(* DeviceCommand: a name that is missing or not known is refused; without  *)
(* a number it is number 1.                                                *)
DeviceCommand ==
  /\ at = "idle"
  /\ \E name \in {"", "u", "s"}, n \in {Index[p] : p \in Port} \cup {1}, b \in {0} \cup Bauds :
       LET baud == IF name = "s" THEN b ELSE 0
       IN  Begin(Ask("device", name, n, baud), IF name = "" THEN "failed" ELSE "find")

DwListDevices ==
  /\ at = "idle"
  /\ Begin(Ask("ls", AnyKind, AnyIndex, 0), IF PortCount = 0 THEN "failed" ELSE "list")

(* HandleCommand: commands that need a connection make one. *)
HandleCommand ==
  /\ at = "idle"
  /\ Begin(Ask("use", AnyKind, AnyIndex, 0), IF CurrentPort = None THEN "find" ELSE "handler")

Refused ==
  /\ at = "failed"
  /\ at' = "idle"
  /\ UNCHANGED <<port, CurrentPort, owner, i, request, did, chosen, faults>>
-----------------------------------------------------------------------------
Fault(ok) == faults' = faults + (IF ok THEN 0 ELSE 1) /\ faults' <= MaxFaults

(* ConnectUsbtinyPort: a failure closes the adapter. *)
ConnectUsbtinyPort(p, ok) ==
  IF Chip[p] # NoChip /\ ok
  THEN [port[p] EXCEPT !.baud = Right, !.open = TRUE]
  ELSE [port[p] EXCEPT !.baud = -1, !.open = FALSE]

(* TryConnectSerialPort: a rate that was given is tried, one that is not   *)
(* known is searched for.                                                  *)
TryConnect(p, sp, ok) ==
  IF Chip[p] # NoChip /\ ok /\ sp.baud # Wrong
  THEN [sp EXCEPT !.baud = Right, !.open = TRUE]
  ELSE [sp EXCEPT !.baud = IF sp.baud > 0 THEN 0 ELSE -1, !.open = FALSE]

(* ConnectSerialPort, when the port is not open or changes its rate.       *)
ChangedBaud(p, baud) ==
  IF baud # 0 /\ port[p].baud # baud
  THEN [port[p] EXCEPT !.baud = baud, !.open = FALSE] ELSE port[p]

(* What ConnectPort leaves.  An open serial port is only broken in to; if  *)
(* that fails the rate is searched for again, and then the command fails.  *)
Connected(p, baud, ok) ==
  IF Kind[p] = "u" THEN ConnectUsbtinyPort(p, ok)
  ELSE LET sp == ChangedBaud(p, baud)
       IN  IF sp.open THEN IF ok THEN sp ELSE [sp EXCEPT !.baud = -1, !.open = FALSE]
           ELSE TryConnect(p, sp, ok)

ConnectFails(p, baud, ok) == Kind[p] = "s" /\ ChangedBaud(p, baud).open /\ ~ok

\* A mutant: any port of the kind will do.
Asked_AnyIndex(p) == request.kind \in {AnyKind, Kind[p]}

Asked(p) ==
  /\ request.kind \in {AnyKind, Kind[p]}
  /\ request.index \in {AnyIndex, Index[p]}

ConnectPort(p, baud) ==
  \E ok \in BOOLEAN :
    /\ Fault(ok)
    /\ port' = [port EXCEPT ![p] = Connected(p, baud, ok)]
    /\ IF ConnectFails(p, baud, ok) THEN at' = "failed" /\ UNCHANGED <<i, CurrentPort>>
       ELSE IF port'[p].baud > 0 THEN at' = "type" /\ CurrentPort' = p /\ UNCHANGED i
       ELSE i' = i + 1 /\ UNCHANGED <<at, CurrentPort>>
    /\ UNCHANGED <<owner, request, did, chosen>>

FindPort == at = "find" /\ i \in Port /\ Asked(i) /\ ConnectPort(i, request.baud)
ListPort == at = "list" /\ i \in Port /\ port[i].baud >= 0 /\ ConnectPort(i, 0)

NextPort ==
  /\ i \in Port
  /\ \/ at = "find" /\ ~Asked(i)
     \/ at = "list" /\ port[i].baud < 0
  /\ i' = i + 1
  /\ UNCHANGED <<port, CurrentPort, owner, at, request, did, chosen, faults>>

(* No port has answered; the handler of a command is called all the same. *)
NotFound ==
  /\ at = "find" /\ i > PortCount
  /\ CurrentPort' = None
  /\ at' = IF request.cmd = "use" THEN "handler" ELSE "failed"
  /\ UNCHANGED <<port, owner, i, request, did, chosen, faults>>

\* A mutant: the port that was listed last stays the current one.
ListDone_Stays ==
  /\ at = "list" /\ i > PortCount
  /\ at' = "idle"
  /\ UNCHANGED <<port, CurrentPort, owner, i, request, did, chosen, faults>>

ListDone ==
  /\ at = "list" /\ i > PortCount
  /\ CurrentPort' = None
  /\ at' = "idle"
  /\ UNCHANGED <<port, owner, i, request, did, chosen, faults>>

\* A mutant: the adapter is closed, but not marked.
Broken_StillUp(p) == IF Kind[p] = "u" THEN [port[p] EXCEPT !.open = FALSE] ELSE port[p]

(* PortFail closes a USB adapter; a serial port stays as it is. *)
Broken(p) == IF Kind[p] = "u" THEN [port[p] EXCEPT !.baud = -1, !.open = FALSE] ELSE port[p]

(* An exchange with the chip at CurrentPort: it works, or fails.           *)
Exchange(ok) ==
  /\ Fault(ok)
  /\ ~ok => /\ port' = [port EXCEPT ![CurrentPort] = Broken(CurrentPort)]
            /\ at' = "failed"
            /\ UNCHANGED <<CurrentPort, owner, i, request, did, chosen>>

\* A mutant: the device type is that of the first port that was ever seen.
GetDeviceType_Kept ==
  /\ at = "type"
  /\ \/ Exchange(FALSE)
     \/ \E full \in BOOLEAN :
          /\ Fault(full)
          /\ port' = [p \in Port |-> [port[p] EXCEPT !.character =
                        IF @ # None THEN @ ELSE IF Chip[i] = NoChip \/ ~full THEN None ELSE Chip[i]]]
          /\ IF request.cmd = "ls" THEN at' = "list" /\ i' = i + 1
             ELSE at' = "reconnect" /\ UNCHANGED i
          /\ UNCHANGED <<CurrentPort, owner, request, did, chosen>>

(* GetDeviceType, for ConnectPort.  An answer that comes short is taken    *)
(* for a signature that is not known.                                      *)
GetDeviceType ==
  /\ at = "type"
  /\ \/ Exchange(FALSE)
     \/ \E full \in BOOLEAN :
          /\ Fault(full)
          /\ port' = [port EXCEPT ![i].character =
                        IF Chip[i] \in {Unsupported, NoChip} \/ ~full THEN None ELSE Chip[i]]
          /\ IF request.cmd = "ls" THEN at' = "list" /\ i' = i + 1
             ELSE at' = "reconnect" /\ UNCHANGED i
          /\ UNCHANGED <<CurrentPort, owner, request, did, chosen>>

\* A mutant: a command goes on with what was cached before.
DwReconnect_DeviceOnly ==
  /\ at = "reconnect"
  /\ \/ Exchange(FALSE)
     \/ /\ Exchange(TRUE)
        /\ owner' = IF request.cmd = "device" THEN CurrentPort ELSE owner
        /\ chosen' = IF request.cmd = "device" \/ port[CurrentPort].character # None THEN CurrentPort ELSE chosen
        /\ at' = IF request.cmd = "device" THEN "idle"
                 ELSE IF port[CurrentPort].character # None THEN "handler" ELSE "failed"
        /\ UNCHANGED <<port, CurrentPort, i, request, did>>

(* DwReconnect reads PC and the registers; then "Connected to" is shown.   *)
(* ConnectFirstPort insists on a known device, DeviceCommand does not.     *)
DwReconnect ==
  /\ at = "reconnect"
  /\ \/ Exchange(FALSE)
     \/ /\ Exchange(TRUE)
        /\ owner' = CurrentPort
        /\ chosen' = IF request.cmd = "device" \/ port[CurrentPort].character # None
                     THEN CurrentPort ELSE chosen
        /\ at' = IF request.cmd = "device" THEN "idle"
                 ELSE IF port[CurrentPort].character # None THEN "handler" ELSE "failed"
        /\ UNCHANGED <<port, CurrentPort, i, request, did>>

(* The handler asks for a characteristic and talks to the chip; without a  *)
(* connection it fails, and so it does on a port that PortFail has closed. *)
Handler ==
  /\ at = "handler"
  /\ IF CurrentPort = None
     THEN at' = "failed" /\ UNCHANGED <<port, CurrentPort, owner, i, request, did, chosen, faults>>
     ELSE \/ Exchange(FALSE)
          \/ /\ ~port[CurrentPort].open
             /\ at' = "failed"
             /\ UNCHANGED <<port, CurrentPort, owner, i, request, did, chosen, faults>>
          \/ /\ port[CurrentPort].open
             /\ Exchange(TRUE)
             /\ did' = CurrentPort
             /\ at' = "idle"
             /\ UNCHANGED <<port, CurrentPort, owner, i, request, chosen>>

(* FindUsbtinys and FindSerials fill the table. *)
FreshPort == [character |-> None, baud |-> 0, open |-> FALSE]

Init ==
  /\ port = [p \in Port |-> FreshPort]
  /\ CurrentPort = None
  /\ owner = None /\ did = None /\ chosen = None
  /\ at = "idle" /\ i = 1
  /\ request = Nothing
  /\ faults = 0

Next == DeviceCommand \/ DwListDevices \/ HandleCommand \/ Refused \/ FindPort
        \/ ListPort \/ NextPort \/ NotFound \/ ListDone \/ GetDeviceType
        \/ DwReconnect \/ Handler

Spec == Init /\ [][Next]_vars
-----------------------------------------------------------------------------
TypeOK ==
  /\ port \in [Port -> [character : {None} \cup Nat, baud : {-1, 0} \cup Bauds, open : BOOLEAN]]
  /\ {CurrentPort, owner, did, chosen} \subseteq Port \cup {None}
  /\ at \in {"idle", "find", "list", "type", "reconnect", "handler", "failed"}
  /\ i \in 1..(PortCount + 1)
  /\ request.cmd \in {"none", "device", "ls", "use"}
  /\ faults \in 0..MaxFaults

(* ConnectPort, PortFail: a port that counts as connected is open, at the  *)
(* rate of its chip, whatever failed in between.                           *)
Open == \A p \in Port : port[p].baud > 0 => port[p].open /\ Chip[p] # NoChip /\ port[p].baud = Right

(* DwFindPort: `device' connects to a port of the kind and number that     *)
(* were asked for, and fails when that port does not answer.               *)
AsRequested ==
  at = "reconnect" /\ at' = "idle" =>
    Kind[CurrentPort] = request.kind /\ Index[CurrentPort] = request.index

Served == at = "handler" /\ at' = "idle"

(* ConnectFirstPort, DwListDevices: a handler only works with the port     *)
(* that the latest "Connected to" has named, also after `ls' and when      *)
(* another `device' has failed.                                            *)
AsAnnounced == Served => CurrentPort = chosen

(* DwReconnect: it is a chip whose PC and registers are the cached ones.   *)
OwnState == Served => owner = CurrentPort

(* GetDeviceType: `character' is the index of the very chip at that port.  *)
OwnType == Served => port[CurrentPort].character = Chip[CurrentPort]
=============================================================================
