----------------------------- MODULE Validation -----------------------------
(***************************************************************************)
(* The value checks of primitives/src/types.rs and validate.rs.  The byte *)
(* level predicates (UTF-8, CID and URL parsing, external crates) are      *)
(* membership in constant sets; the structure of the checks is kept.      *)
(* GameTags is a BoundedVec, a sequence that may repeat a tag, and        *)
(* GameDetails::is_valid takes the tag check as a closure: here the       *)
(* closure is the set of tags it accepts (game_add passes                *)
(* Tags::contains_key, which accepts TagIds).                             *)
(***************************************************************************)
EXTENDS Naturals, Sequences

CONSTANTS
    TagIds,             \* keys of Tags after genesis (TAGS enumerated)
    NonEmptyStrings,    \* names for which is_non_empty_string holds
    ValidCids           \* byte strings for which is_cid holds

(* is_string: valid UTF-8.  Every name of the model is; the empty one is *)
(* the only one outside NonEmptyStrings.                                  *)
IsString(string) == string \in NonEmptyStrings \cup {""}

IsNonEmptyString(string) == string # "" /\ IsString(string)

IsCid(cid) == cid \in ValidCids

(* Distribution::is_valid: a CID where there is content, a non-zero price *)
(* where there is a price.                                                *)
IsValidDistribution(d) ==
    CASE d.kind = "Free"       -> IsCid(d.cid)
      [] d.kind = "Instant"    -> d.price # 0 /\ IsCid(d.cid)
      [] d.kind = "Individual" -> d.price # 0

(* self.tags.iter().all(valid_tag): true on the empty vector, otherwise   *)
(* the first tag must be accepted and so must the rest.                   *)
RECURSIVE AllAccepted(_, _)
AllAccepted(tags, accepted) ==
    IF tags = <<>> THEN TRUE
    ELSE Head(tags) \in accepted /\ AllAccepted(Tail(tags), accepted)

(* GameDetails::is_valid(valid_tag), in the order the code evaluates it.  *)
IsValidGameDetailsWith(details, accepted) ==
    /\ IsNonEmptyString(details.name)
    /\ IsValidDistribution(details.distribution)
    /\ AllAccepted(details.tags, accepted)

=============================================================================
