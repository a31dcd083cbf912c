-------------------------------- MODULE Files --------------------------------
(***************************************************************************)
(* Open files: the tmpfs service (services/tmpfs_service.c), the VFS       *)
(* router in front of it (services/vfs_service.c), the program loader      *)
(* (core/loader.c) and the process service that spawns with it             *)
(* (services/proc_service.c), over the object and capability tables.       *)
(*                                                                         *)
(* The archive does not change after boot: FileSize gives the size of each *)
(* file, and a file's contents are its path.  A load is a sequence of      *)
(* calls that nothing interrupts until the loaded program runs; programs   *)
(* open, read and close files and spawn further programs.                  *)
(***************************************************************************)
EXTENDS Capability, FiniteSets

CONSTANTS FileType, Read,    \* SCDK_OBJ_FILE, SCDK_RIGHT_READ
          Paths,             \* paths in messages
          Bounded,           \* those within the length bounds
          Rooted,            \* those that begin with '/'
          FileSize,          \* sizes of the files, by path
          MaxImage,          \* SCDK_LOADER_MAX_IMAGE_SIZE
          MaxOpen,           \* SCDK_TMPFS_MAX_OPEN_FILES
          MaxDepth           \* bound: nested programs

FileIdx == 0 .. MaxOpen - 1
Requests == 0 .. 3           \* offsets and lengths clients ask for
NoPath == "nopath"

VARIABLES open_files,   \* open_files[i] of tmpfs_service.c
          tmpfs_live,   \* the tmpfs endpoint's token is honoured
          loader,       \* the load in progress
          programs,     \* loaded programs that run, innermost last
          images,       \* image buffers on the heap
          path_of,      \* history: the path each token was last returned for
          held,         \* history: tokens with which clients have files open
          lost          \* history: objects of open files nobody can close

fileVars == <<open_files, tmpfs_live, loader, programs, images, path_of, held, lost>>
allVars == <<vars, fileVars>>

EmptyFile == [object_id |-> Null, cap |-> Null, backing |-> NoPath, open |-> FALSE]
Idle == [pc |-> "idle", file |-> Null, size |-> 0, got |-> 0, ok |-> FALSE]

FiInit ==
    /\ Init
    /\ open_files = [i \in FileIdx |-> EmptyFile]
    /\ tmpfs_live = TRUE
    /\ loader = Idle /\ programs = 0 /\ images = 0
    /\ path_of = [t \in Tokens |-> NoPath] /\ held = {} /\ lost = {}

-----------------------------------------------------------------------------
(* tmpfs_service.c                                                         *)

ObjectOf(t) == cap_table[t[1]].object_id
SlotOf(t) == object_table[ObjectOf(t)[1]].payload

\* The token names an open file; its slot is SlotOf(t).
tmpfs_slot_for_cap(t) ==
    /\ scdk_cap_check(t, {Read}, FileType)
    /\ ObjectFound(object_table, ObjectOf(t))
    /\ open_files[SlotOf(t)].object_id = ObjectOf(t)
    /\ open_files[SlotOf(t)].open

FreeFiles == {i \in FileIdx : ~open_files[i].open}

tmpfs_path_from_message(path) == path \in Bounded

scdk_initrd_find(path) == path \in DOMAIN FileSize

\* A slot, an object and a capability in turn; an open that fails on the
\* capability keeps the object.  t is the token in the reply, Null if
\* there is none.
tmpfs_handle_open(path, t) ==
    /\ tmpfs_path_from_message(path) /\ scdk_initrd_find(path)
    /\ \E i \in FreeFiles, o \in FreeObjectSlots :
           /\ IsFirst(i, FreeFiles) /\ IsFirst(o, FreeObjectSlots)
           /\ TakeObjectSlot(o, FileType, i)
           /\ \/ \E c \in FreeCapSlots :
                     LET id == object_make_id(o, object_generations'[o])
                     IN  /\ IsFirst(c, FreeCapSlots)
                         /\ t = cap_make_token(c, next_generation(cap_generations[c]))
                         /\ TakeCapSlot(c, object_table', id, {Read})
                         /\ open_files' = [open_files EXCEPT ![i] =
                                [object_id |-> id, cap |-> t, backing |-> path, open |-> TRUE]]
                         /\ path_of' = [path_of EXCEPT ![t] = path]
              \/ /\ FreeCapSlots = {} /\ t = Null
                 /\ open_files' = [open_files EXCEPT ![i].object_id = Null]
                 /\ UNCHANGED <<capVars, path_of>>

\* The bytes a read copies, {} for an error or nothing.
tmpfs_handle_read(t, offset, requested) ==
    LET path == open_files[SlotOf(t)].backing
    IN  IF ~tmpfs_slot_for_cap(t) \/ requested = 0 \/ offset > FileSize[path] THEN {}
        ELSE LET available == FileSize[path] - offset
                 to_copy == IF requested < available THEN requested ELSE available
             IN  {<<path, k>> : k \in offset .. offset + to_copy - 1}

\* The capability and the object outlive the close.
tmpfs_handle_close(t) ==
    /\ tmpfs_slot_for_cap(t)
    /\ open_files' = [open_files EXCEPT ![SlotOf(t)].open = FALSE]
    /\ held' = held \ {t} /\ UNCHANGED path_of

-----------------------------------------------------------------------------
(* vfs_service.c: a router that keeps no state of its own                  *)

path_under_root(path) == path \in Rooted
vfs_forward_to_tmpfs == tmpfs_live
vfs_handle_open(path) == path_under_root(path) /\ vfs_forward_to_tmpfs

-----------------------------------------------------------------------------
(* Clients                                                                 *)

\* A client is given a token.
KeepToken(t) == held' = held \cup ({t} \ {Null})

ClientOpens(path) ==
    /\ loader.pc = "idle" /\ vfs_handle_open(path)
    /\ \E t \in Tokens : tmpfs_handle_open(path, t) /\ KeepToken(t)
    /\ UNCHANGED <<tmpfs_live, loader, programs, images, lost>>

\* Clients use the tokens they were given, closed ones too.
ClientCloses(t) ==
    /\ loader.pc = "idle" /\ vfs_forward_to_tmpfs
    /\ ObjectOf(t) \notin lost
    /\ tmpfs_handle_close(t)
    /\ UNCHANGED <<vars, tmpfs_live, loader, programs, images, lost>>

\* scdk_revoke_capability on a file's token: tmpfs is not told.
RevokeCap(t) ==
    /\ loader.pc = "idle" /\ scdk_cap_revoke(t)
    /\ lost' = IF t \in held THEN lost \cup {ObjectOf(t)} ELSE lost
    /\ held' = held \ {t}
    /\ UNCHANGED <<open_files, tmpfs_live, loader, programs, images, path_of>>

RevokeTmpfs ==
    /\ loader.pc = "idle" /\ tmpfs_live /\ tmpfs_live' = FALSE
    /\ UNCHANGED <<vars, open_files, loader, programs, images, path_of, held, lost>>

-----------------------------------------------------------------------------
(* loader.c and proc_service.c                                             *)

Acceptable(size) == size # 0 /\ size <= MaxImage

\* After the open: an empty file and one that is too large are refused and
\* stay open.
loader_open_file(path, t) ==
    IF t = Null THEN UNCHANGED <<held, lost, loader>>
    ELSE IF Acceptable(FileSize[path])
    THEN /\ UNCHANGED <<held, lost>>
         /\ loader' = [Idle EXCEPT !.pc = "alloc", !.file = t, !.size = FileSize[path]]
    ELSE /\ lost' = lost \cup {cap_table'[t[1]].object_id}
         /\ UNCHANGED <<held, loader>>

\* A spawn, as far as the open of its file.
proc_handle_spawn(path) ==
    /\ loader.pc = "idle" /\ programs < MaxDepth
    /\ vfs_handle_open(path)
    /\ \E t \in Tokens : tmpfs_handle_open(path, t) /\ loader_open_file(path, t)
    /\ UNCHANGED <<tmpfs_live, programs, images>>

\* Mutant: without memory for the image the file is left open.
loader_alloc_image_no_close(got) ==
    /\ loader.pc = "alloc"
    /\ loader' = IF got THEN [loader EXCEPT !.pc = "read"] ELSE Idle
    /\ images' = IF got THEN images + 1 ELSE images
    /\ UNCHANGED <<vars, open_files, tmpfs_live, programs, path_of, held, lost>>

loader_alloc_image(got) ==
    /\ loader.pc = "alloc"
    /\ loader' = [loader EXCEPT !.pc = IF got THEN "read" ELSE "close"]
    /\ images' = IF got THEN images + 1 ELSE images
    /\ UNCHANGED <<vars, open_files, tmpfs_live, programs, path_of, held, lost>>

\* One round of the loop.
loader_read_file ==
    LET n == Cardinality(tmpfs_handle_read(loader.file, loader.got, loader.size - loader.got))
        bad == n = 0 \/ n > loader.size - loader.got
    IN  /\ loader.pc = "read"
        /\ loader' = IF bad THEN [loader EXCEPT !.pc = "close"]
                     ELSE IF loader.got + n = loader.size
                     THEN [loader EXCEPT !.pc = "close", !.got = loader.size, !.ok = TRUE]
                     ELSE [loader EXCEPT !.got = @ + n]
        /\ images' = IF bad THEN images - 1 ELSE images
        /\ UNCHANGED <<vars, open_files, tmpfs_live, programs, path_of, held, lost>>

loader_close_file ==
    /\ loader.pc = "close" /\ tmpfs_handle_close(loader.file)
    /\ loader' = IF loader.ok THEN [loader EXCEPT !.pc = "start"] ELSE Idle
    /\ UNCHANGED <<vars, tmpfs_live, programs, images, lost>>

\* scdk_user_task_create, then scdk_user_task_run_flat.
scdk_loader_start(created) ==
    /\ loader.pc = "start" /\ loader' = Idle
    /\ programs' = IF created THEN programs + 1 ELSE programs
    /\ images' = IF created THEN images ELSE images - 1
    /\ UNCHANGED <<vars, open_files, tmpfs_live, path_of, held, lost>>

\* The run is over: the image is freed, the spawn returns.
ProgramEnds ==
    /\ loader.pc = "idle" /\ programs > 0
    /\ programs' = programs - 1 /\ images' = images - 1
    /\ UNCHANGED <<vars, open_files, tmpfs_live, loader, path_of, held, lost>>

FiNext ==
    \/ \E p \in Paths : ClientOpens(p) \/ proc_handle_spawn(p)
    \/ \E t \in Tokens : ClientCloses(t) \/ RevokeCap(t)
    \/ RevokeTmpfs
    \/ \E got \in BOOLEAN : loader_alloc_image(got) \/ scdk_loader_start(got)
    \/ loader_read_file \/ loader_close_file \/ ProgramEnds

FiSpec == FiInit /\ [][FiNext]_allVars

-----------------------------------------------------------------------------
(* Properties                                                              *)

\* The types of the state; an open file has a path the archive knows.
FiTypeOK ==
    /\ open_files \in [FileIdx -> [object_id : Ids, cap : Tokens, open : BOOLEAN,
                                   backing : DOMAIN FileSize \cup {NoPath}]]
    /\ \A i \in FileIdx : open_files[i].open => open_files[i].backing # NoPath
    /\ cap_generations \in [CapIdx -> Generations]
    /\ programs \in 0 .. MaxDepth /\ images \in 0 .. MaxDepth + 1

\* A read through a token returns bytes of the file that token was opened
\* for and of no other, never past its end, and nothing after the close,
\* although slots pass from closed files to new ones while the old tokens
\* stay valid capabilities.  All of an open file is there to be read.
TokensReadTheirFile ==
    \A t \in Tokens, offset, n \in Requests :
        LET read == tmpfs_handle_read(t, offset, n)
        IN  /\ read # {} => /\ read \subseteq {<<path_of[t], k>> : k \in 0 .. FileSize[path_of[t]] - 1}
                            /\ t \in held \cup {loader.file} \/ ObjectOf(t) \in lost
            /\ t \in held /\ offset = 0 /\ n >= FileSize[path_of[t]] =>
                   Cardinality(read) = FileSize[path_of[t]]

\* Every open slot is held by a client, by the load in progress, or is one of
\* the lost ones: revoked before the close, or refused by the loader for its
\* size.  Nothing else uses up the table, no load that fails later on, and
\* nobody loses a file to somebody else's open.
OpenFilesAreHeld ==
    {open_files[i].object_id : i \in {j \in FileIdx : open_files[j].open}} =
        lost \cup {ObjectOf(t) : t \in held}
             \cup IF loader.pc \in {"alloc", "read", "close"} THEN {ObjectOf(loader.file)} ELSE {}

\* While programs run and load each other, there is one image buffer for
\* each running program and one for a load in progress, whatever load fails
\* at which step.
ImagesBelongToLoads ==
    images = programs + IF loader.pc \in {"read", "start"} \/ (loader.pc = "close" /\ loader.ok)
                        THEN 1 ELSE 0

=============================================================================
