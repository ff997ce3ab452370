------------------------------ MODULE Compute ------------------------------
(***************************************************************************)
(* Microsoft.Compute (internal/services/compute): disks, and virtual       *)
(* machines made from a fixed catalogue of images and attached to network  *)
(* interfaces that another service keeps.                                  *)
(***************************************************************************)
EXTENDS Network

CONSTANT MachineNames

-----------------------------------------------------------------------------
(* Images *)

Jammy == <<"Canonical", "0001-com-ubuntu-server-jammy", "22_04-lts-gen2">>
Windows == <<"MicrosoftWindowsServer", "WindowsServer", "2022-datacenter-azure-edition">>

ImageCatalog == (Jammy :> <<"22.04.202401010">>) @@ (Windows :> <<"20348.2402.231109">>)

\* The version a reference stands for; nothing when the catalogue has none.
ResolveImageReference(ref) ==
    IF ref.image \notin DOMAIN ImageCatalog THEN {}
    ELSE LET versions == ImageCatalog[ref.image]
         IN  IF ref.version \in {"", "latest"} THEN {Last(versions)}
             ELSE {ref.version} \intersect ToSet(versions)

ImageRequests ==
    {[image |-> i, version |-> v] :
        i \in {Jammy, Windows, <<"Canonical", "UbuntuServer", "18.04-LTS">>},
        v \in {"latest", "20348.2402.231109"}}

-----------------------------------------------------------------------------
(* Virtual machines *)

VM(m) == <<"compute.virtualmachines", m>>

\* The principal an identity of a type other than None is given: derived
\* from the machine's id.
Principal(k, type) == IF type \in {"", "None"} THEN <<>> ELSE <<"principal", k>>

\* Every interface must be stored when the machine is put, which leaves it
\* running.
PutVirtualMachine(c, m, nics, ref, identity) ==
    /\ nics # {}
    /\ ResolveImageReference(ref) # {}
    /\ \A n \in nics : FindNICByID(n)
    /\ Putting(c, VM(m),
          [nics |-> nics,
           version |-> CHOOSE v \in ResolveImageReference(ref) : TRUE,
           identity |-> Principal(VM(m), identity),
           power |-> "running"])

DeleteVirtualMachine(c, m) == Deleting(c, VM(m))

\* start and powerOff write back the machine they read.
SetPowerState(c, m, power) ==
    Has(VM(m)) /\ Begin(c, "set", VM(m), <<Store(VM(m), [docs[VM(m)] EXCEPT !.power = power])>>)
StartVirtualMachine(c, m) == SetPowerState(c, m, "running")
PowerOffVirtualMachine(c, m) == SetPowerState(c, m, "stopped")

-----------------------------------------------------------------------------
(* Disks *)

Disk(m) == <<"compute.disks", m>>

\* An Empty disk, which is what no createOption means, must have a size;
\* another one is given 30.
PutDisk(c, m, option, size) ==
    LET created == IF option = "" THEN "Empty" ELSE option
    IN  /\ created = "Empty" => size > 0
        /\ Putting(c, Disk(m), [option |-> created, size |-> IF size <= 0 THEN 30 ELSE size])

DeleteDisk(c, m) == Deleting(c, Disk(m))

-----------------------------------------------------------------------------

ComputeNext(c) ==
    \/ \E m \in MachineNames, nics \in SUBSET NICNames, ref \in ImageRequests, t \in {"None", "SystemAssigned"} :
          PutVirtualMachine(c, m, nics, ref, t)
    \/ \E m \in MachineNames :
          \/ DeleteVirtualMachine(c, m)
          \/ StartVirtualMachine(c, m)
          \/ PowerOffVirtualMachine(c, m)
          \/ DeleteDisk(c, m)
    \/ \E m \in MachineNames, option \in {"", "FromImage"}, size \in {0, 8} : PutDisk(c, m, option, size)
=============================================================================
