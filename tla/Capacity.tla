------------------------------ MODULE Capacity ------------------------------
(***************************************************************************)
(* The capacity validator extractStorage (src/driver/utils.go) and the    *)
(* conversion of its result to the GiB count CreateVolume passes to the   *)
(* appliance (src/driver/controller.go).                                   *)
(*                                                                         *)
(* Sizes are counted in units of Unit bytes, GiB == GiBUnits * Unit.  The  *)
(* driver's bounds are whole GiB, so every comparison the code makes falls *)
(* on a unit boundary and a sub-GiB unit keeps "not a multiple of 1 GiB"   *)
(* representable.  TLC's integers could not hold 128 GiB in bytes.         *)
(***************************************************************************)
EXTENDS Integers

CONSTANTS
    GiBUnits,   \* units per GiB
    Inputs      \* byte counts (in units) tried for required and limit

ASSUME GiBUnits \in Nat \ {0} /\ Inputs \subseteq Int

giB == GiBUnits

\* minimumVolumeSizeInBytes, maximumVolumeSizeInBytes,
\* defaultVolumeSizeInBytes.
minimumVolumeSize == 1 * giB
maximumVolumeSize == 128 * giB
defaultVolumeSize == 16 * giB

\* A CapacityRange, or its absence.
Nil == [nil |-> TRUE]
Ranges == {Nil} \cup [required : Inputs, limit : Inputs]

\* The result: a size, or the first rule the request violates.
Ok(size) == [ok |-> TRUE, size |-> size, err |-> "none"]
Err(rule) == [ok |-> FALSE, size |-> 0, err |-> rule]

\* Mutant: the check that the limit is a whole number of GiB is dropped.
ExtractStorageNoLimitModulo(capRange) ==
    IF capRange = Nil THEN Ok(defaultVolumeSize) ELSE
    LET req == capRange.required
        lim == capRange.limit
        reqSet == 0 < req
        limSet == 0 < lim
    IN
    CASE ~reqSet /\ ~limSet                        -> Ok(defaultVolumeSize)
      [] reqSet /\ limSet /\ lim < req              -> Err("limit<required")
      [] reqSet /\ ~limSet /\ req < minimumVolumeSize -> Err("required<min")
      [] limSet /\ lim < minimumVolumeSize          -> Err("limit<min")
      [] reqSet /\ req > maximumVolumeSize          -> Err("required>max")
      [] reqSet /\ req % giB # 0                    -> Err("required%GiB")
      [] ~reqSet /\ limSet /\ lim > maximumVolumeSize -> Err("limit>max")
      [] reqSet                                     -> Ok(req)
      [] OTHER                                      -> Ok(lim)

\* Mutant: the check that the limit is not below the required size is
\* dropped.
ExtractStorageNoOrderCheck(capRange) ==
    IF capRange = Nil THEN Ok(defaultVolumeSize) ELSE
    LET req == capRange.required
        lim == capRange.limit
        reqSet == 0 < req
        limSet == 0 < lim
    IN
    CASE ~reqSet /\ ~limSet                        -> Ok(defaultVolumeSize)
      [] reqSet /\ ~limSet /\ req < minimumVolumeSize -> Err("required<min")
      [] limSet /\ lim < minimumVolumeSize          -> Err("limit<min")
      [] limSet /\ lim % giB # 0                    -> Err("limit%GiB")
      [] reqSet /\ req > maximumVolumeSize          -> Err("required>max")
      [] reqSet /\ req % giB # 0                    -> Err("required%GiB")
      [] ~reqSet /\ limSet /\ lim > maximumVolumeSize -> Err("limit>max")
      [] reqSet                                     -> Ok(req)
      [] OTHER                                      -> Ok(lim)

\* extractStorage: the rules in the order the code tests them.  An unset
\* field reads as 0, and only a positive value counts as set.
ExtractStorage(capRange) ==
    IF capRange = Nil THEN Ok(defaultVolumeSize) ELSE
    LET req == capRange.required
        lim == capRange.limit
        reqSet == 0 < req
        limSet == 0 < lim
    IN
    CASE ~reqSet /\ ~limSet                        -> Ok(defaultVolumeSize)
      [] reqSet /\ limSet /\ lim < req              -> Err("limit<required")
      [] reqSet /\ ~limSet /\ req < minimumVolumeSize -> Err("required<min")
      [] limSet /\ lim < minimumVolumeSize          -> Err("limit<min")
      [] limSet /\ lim % giB # 0                    -> Err("limit%GiB")
      [] reqSet /\ req > maximumVolumeSize          -> Err("required>max")
      [] reqSet /\ req % giB # 0                    -> Err("required%GiB")
      [] ~reqSet /\ limSet /\ lim > maximumVolumeSize -> Err("limit>max")
      [] reqSet                                     -> Ok(req)
      [] OTHER                                      -> Ok(lim)

\* CreateVolume: sizeGB := size / (1 * giB), the LUN capacity in GiB.
SizeGB(size) == size \div giB
=============================================================================
