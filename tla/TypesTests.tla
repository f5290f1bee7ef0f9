----------------------------- MODULE TypesTests -----------------------------
(***************************************************************************)
(* The GameDetails unit tests of primitives/src/types.rs run against the *)
(* checks of Validation.  The variable holds the test being run; a step  *)
(* runs another one.                                                      *)
(***************************************************************************)
EXTENDS Validation

CONSTANTS
    TestName,     \* the name of the tests, "Example Game"
    TestCid,      \* the CID of the tests
    TestTags      \* tags 1, 2 and 3 of the tests

VARIABLE test

(* The GameDetails tests: their details, the closure passed to is_valid  *)
(* (as the set of tags it accepts: |_| true or |_| false), the asserted   *)
(* result, and the check the test's name says it exercises.              *)
TestGame(name, tags, price) ==
    [name |-> name, tags |-> tags,
     distribution |-> [kind |-> "Instant", price |-> price, cid |-> TestCid]]

TypesTestCases ==
    { [case |-> "is_valid", details |-> TestGame(TestName, <<1, 2, 3>>, 1234),
       accepted |-> TestTags, expect |-> TRUE, target |-> "none"],
      [case |-> "name_is_empty", details |-> TestGame("", <<1, 2, 3>>, 1234),
       accepted |-> TestTags, expect |-> FALSE, target |-> "name"],
      [case |-> "tags_are_empty", details |-> TestGame(TestName, <<>>, 1234),
       accepted |-> TestTags, expect |-> TRUE, target |-> "none"],
      [case |-> "tags_are_invalid", details |-> TestGame("", <<1, 2, 3>>, 1234),
       accepted |-> {}, expect |-> FALSE, target |-> "tags"],
      [case |-> "distribution_is_invalid", details |-> TestGame("", <<1, 2, 3>>, 0),
       accepted |-> TestTags, expect |-> FALSE, target |-> "distribution"] }

Init == test \in TypesTestCases

RunTest == test' \in TypesTestCases

Spec == Init /\ [][RunTest]_test

-----------------------------------------------------------------------------
(* Properties.                                                            *)

(* Each negative test isolates the check its name names: its details pass *)
(* every other check, so the test fails if, and only if, that check       *)
(* rejects.  A test whose input also fails another check would pass with  *)
(* the named check removed.                                               *)
TestsIsolateTheirCheck ==
    LET d == test.details
        passes == [name |-> IsNonEmptyString(d.name),
                   distribution |-> IsValidDistribution(d.distribution),
                   tags |-> AllAccepted(d.tags, test.accepted)]
    IN  test.target # "none" =>
            \A check \in DOMAIN passes \ {test.target} : passes[check]

=============================================================================
