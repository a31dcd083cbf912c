------------------------------ MODULE MCTables ------------------------------
(***************************************************************************)
(* Grants, files and devices for model checking: the three users of the    *)
(* object and capability tables that keep tables of their own.  In each    *)
(* behaviour one of them uses the tables, with table sizes of its own; the *)
(* others' objects are of other types, which no check of its tokens        *)
(* accepts.                                                                *)
(***************************************************************************)
EXTENDS Integers, Sequences, FiniteSets

CONSTANTS grant_object, task_object, endpoint_object, file_object,
          device_object, queue_object, no_object,
          read_right, write_right, send_right, bind_right, revoke_right,
          nothing, nullptr

VARIABLES part,    \* the user of the tables
          object_table, object_generations, cap_table, cap_generations, age,
          user_grants, grant_table, issued, creates,
          open_files, tmpfs_live, loader, programs, images, path_of, held, lost,
          devices, queues, reg

tables == <<object_table, object_generations, cap_table, cap_generations, age>>
grants == <<user_grants, grant_table, creates>>
files == <<open_files, tmpfs_live, loader, programs, images, path_of, held, lost>>
devs == <<devices, queues, reg>>

\* One task, two endpoints, one mapped range and one that is not.
MCValid == {[base |-> 1, length |-> 2]}
Gr == INSTANCE Grants WITH
        ObjTypes <- {grant_object, task_object, endpoint_object}, NoType <- no_object,
        Rights <- {read_right, write_right, send_right, revoke_right}, Payloads <- {nothing},
        NoPayload <- nullptr,
        MaxObjects <- 6, MaxCaps <- 4, GenMod <- 4,
        GrantType <- grant_object, TaskType <- task_object, EndpointType <- endpoint_object,
        Read <- read_right, Write <- write_right, Send <- send_right, RevokeRight <- revoke_right,
        Ranges <- MCValid \cup {[base |-> 6, length |-> 1]}, ValidRanges <- MCValid,
        AskedRights <- {{}, {read_right}, {read_right, write_right}},
        Offsets <- 0 .. 2, Lengths <- 0 .. 2,
        MaxUserGrants <- 2, MaxGrants <- 1, MaxCreates <- 3,
        Boot <- [i \in 0 .. 2 |-> IF i = 0 THEN task_object ELSE endpoint_object]
ASSUME MCGrantConstants == Gr!GrantConstants

\* A file, one that is too large for the loader, one whose path is too long,
\* one whose path is not rooted.
MCPaths == {"two", "large", "long", "relative"}
Fi == INSTANCE Files WITH
        ObjTypes <- {file_object}, NoType <- no_object, Rights <- {read_right},
        Payloads <- {0, 1}, NoPayload <- nullptr,
        MaxObjects <- 4, MaxCaps <- 2, GenMod <- 4, FileType <- file_object, Read <- read_right,
        Paths <- MCPaths, Bounded <- MCPaths \ {"long"}, Rooted <- MCPaths \ {"relative"},
        FileSize <- [p \in MCPaths |-> IF p = "large" THEN 3 ELSE 2],
        MaxImage <- 2, MaxOpen <- 2, MaxDepth <- 2

\* Two devices, tables that run out.
De == INSTANCE Devices WITH
        ObjTypes <- {device_object, queue_object, endpoint_object}, NoType <- no_object,
        Rights <- {read_right, write_right, bind_right, revoke_right, send_right},
        Payloads <- {0, 1}, NoPayload <- nullptr,
        MaxObjects <- 9, MaxCaps <- 4, GenMod <- 4,
        DeviceType <- device_object, QueueType <- queue_object, EndpointType <- endpoint_object,
        Read <- read_right, Write <- write_right, Bind <- bind_right,
        RevokeRight <- revoke_right, Send <- send_right,
        MaxDevices <- 2, MaxQueues <- 2, Endpoint <- <<0, 1>>

-----------------------------------------------------------------------------
NoGrants == user_grants = nothing /\ grant_table = nothing /\ creates = 0
NoFiles == /\ open_files = nothing /\ tmpfs_live = FALSE /\ loader = nothing /\ programs = 0
           /\ images = 0 /\ path_of = nothing /\ held = {} /\ lost = {}
NoDevices == devices = nothing /\ queues = nothing /\ reg = nothing

Init ==
    \/ part = "grants" /\ Gr!GrInit /\ NoFiles /\ NoDevices
    \/ part = "files" /\ Fi!FiInit /\ NoGrants /\ NoDevices /\ issued = nothing
    \/ part = "devices" /\ De!DevInit /\ NoGrants /\ NoFiles

Next ==
    \/ part = "grants" /\ Gr!GrNext /\ UNCHANGED <<files, devs, part>>
    \/ part = "files" /\ Fi!FiNext /\ UNCHANGED <<grants, devs, issued, part>>
    \/ part = "devices" /\ De!DevNext /\ UNCHANGED <<grants, files, part>>

Spec == Init /\ [][Next]_<<tables, grants, files, devs, issued, part>>

-----------------------------------------------------------------------------
(* The properties of the three, each where it applies.                     *)

\* The types of the tables of grants, files and devices.
TablesTypeOK ==
    /\ part = "grants" => Gr!GrTypeOK
    /\ part = "files" => Fi!FiTypeOK
    /\ part = "devices" => De!DevTypeOK

\* A token that passes the checks reaches what it was returned for: the
\* grant, the open file, the device queue.
TokensReachTheirOwn ==
    /\ part = "grants" => Gr!TokenReachesItsGrant
    /\ part = "files" => Fi!TokensReadTheirFile
    /\ part = "devices" => De!QueueTokensReachTheirQueue

\* An access through a grant stays inside its range, rights and owner.
AccessStaysInsideGrant == part = "grants" => Gr!AccessStaysInsideGrant

\* A call that fails on a later acquisition gives back the earlier ones: only
\* grants whose create returned a token, files that somebody holds, programs
\* that run and complete registrations hold slots and buffers.  (Files the
\* loader is known to lose are counted apart.)
FailuresGiveBack ==
    /\ part = "grants" => Gr!SlotsHeldByGrants
    /\ part = "files" => Fi!OpenFilesAreHeld /\ Fi!ImagesBelongToLoads
    /\ part = "devices" => De!SlotsHeldByRegistrations

=============================================================================
