---------------------------- MODULE CreateRequest ----------------------------
(***************************************************************************)
(* The argument phase of CreateVolume (src/driver/controller.go), before    *)
(* its first appliance call: the name and capability checks,               *)
(* validateCapabilities, extractStorage, the GiB conversion and            *)
(* cleanISCSIName.  The state is one request and the answer the code       *)
(* computes for it; Controller starts where an accepted request leaves     *)
(* off, with the normalised name and the GiB count.                        *)
(***************************************************************************)
EXTENDS Capacity, Naming, FiniteSets

CONSTANTS
    NameInputs,   \* request names tried
    CapInputs     \* VolumeCapabilities lists tried (as sets)

AccessModes == {"SINGLE_NODE_WRITER", "MULTI_NODE_READER_ONLY"}
AccessTypes == {"block", "mount", "none"}
Capability == [mode : AccessModes, type : AccessTypes]

ASSUME CapInputs \subseteq SUBSET Capability

\* supportedAccessMode
supportedAccessMode == "SINGLE_NODE_WRITER"

\* Mutant: the access-type switch has no default case.
validateCapabilitiesNoTypeCheck(caps) ==
    {"mode " \o c.mode : c \in {d \in caps : d.mode # supportedAccessMode}}

\* validateCapabilities: the set of violations over all capabilities.
validateCapabilities(caps) ==
    {"mode " \o c.mode : c \in {d \in caps : d.mode # supportedAccessMode}}
    \cup (IF \E c \in caps : c.type \notin {"block", "mount"}
          THEN {"unsupported access type"} ELSE {})

Reject(code) == [code |-> code, size |-> 0, sizeGB |-> 0, name |-> <<>>]

\* Mutant: the capacity range is resolved and checked before the
\* capabilities.
CreateVolumeArgsSizeFirst(r) ==
    LET size == ExtractStorage(r.range) IN
    CASE r.name = <<>>                         -> Reject("InvalidArgument")
      [] ~size.ok                              -> Reject("OutOfRange")
      [] r.caps = {}                           -> Reject("InvalidArgument")
      [] validateCapabilities(r.caps) # {}     -> Reject("InvalidArgument")
      [] OTHER -> [code |-> "OK", size |-> size.size,
                   sizeGB |-> SizeGB(size.size), name |-> cleanISCSIName(r.name)]

\* CreateVolume up to the Login call: the first failing check decides the
\* status code; an accepted request yields the size, the GiB count and the
\* normalised name.
CreateVolumeArgs(r) ==
    LET size == ExtractStorage(r.range) IN
    CASE r.name = <<>>                         -> Reject("InvalidArgument")
      [] r.caps = {}                           -> Reject("InvalidArgument")
      [] validateCapabilities(r.caps) # {}     -> Reject("InvalidArgument")
      [] ~size.ok                              -> Reject("OutOfRange")
      [] OTHER -> [code |-> "OK", size |-> size.size,
                   sizeGB |-> SizeGB(size.size), name |-> cleanISCSIName(r.name)]

VARIABLES req, answer

vars == <<req, answer>>

Requests == [name : NameInputs, caps : CapInputs, range : Ranges]

TypeOK ==
    /\ req \in Requests
    /\ answer.code \in {"OK", "InvalidArgument", "OutOfRange"}

Init ==
    /\ req \in Requests
    /\ answer = CreateVolumeArgs(req)

Next == UNCHANGED vars

Spec == Init /\ [][Next]_vars

-----------------------------------------------------------------------------

\* Every accepted request resolves to a size the appliance can allocate
\* exactly: a whole number of GiB between the minimum and the maximum, so
\* the GiB count CreateVolume sends (sizeGB) loses nothing (spec section 8).
ResolvedSizeLegal ==
    answer.code = "OK" =>
        /\ minimumVolumeSize <= answer.size
        /\ answer.size <= maximumVolumeSize
        /\ answer.sizeGB * giB = answer.size

\* An accepted size honours the request: at least the required bytes and
\* at most the limit, whichever of them is set.
ResolvedWithinRequest ==
    (answer.code = "OK" /\ req.range # Nil) =>
        /\ 0 < req.range.required => req.range.required <= answer.size
        /\ 0 < req.range.limit => answer.size <= req.range.limit

\* CreateVolume refuses a request in the order the spec gives (section 4.3,
\* steps 1-2): a missing name, no capability, or a capability other than
\* single-node-writer with block or mount access is InvalidArgument whatever
\* the size; only a request with valid arguments is OutOfRange, and exactly
\* when its range cannot be met.
ChecksInSpecOrder ==
    LET badArgs == \/ req.name = <<>>
                   \/ req.caps = {}
                   \/ \E c \in req.caps : \/ c.mode # "SINGLE_NODE_WRITER"
                                          \/ c.type \notin {"block", "mount"}
    IN  /\ answer.code = "InvalidArgument" <=> badArgs
        /\ answer.code = "OutOfRange" <=> (~badArgs /\ ~ExtractStorage(req.range).ok)

(***************************************************************************)
(* Normalising is case-insensitive (spec section 8): a name and its        *)
(* lower-case form give the same volume id, also for the letters outside   *)
(* ASCII that strings.ToLower folds into [a-z] (U+212A, U+0130), so        *)
(* cleanISCSIName must lower-case before it filters; and the id normalises *)
(* to itself.                                                              *)
(***************************************************************************)
NameCaseInsensitive ==
    answer.code = "OK" =>
        /\ answer.name = cleanISCSIName(ToLower(req.name))
        /\ cleanISCSIName(answer.name) = answer.name
=============================================================================
