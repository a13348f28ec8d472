------------------------------ MODULE FilterMC ------------------------------
(***************************************************************************)
(* Set-ups of the filter, and the tags of a run.                           *)
(***************************************************************************)
EXTENDS Filter

Setup(outcomes, with_tags, without_tags, expected) ==
    [outcomes |-> outcomes, with_tags |-> with_tags, without_tags |-> without_tags,
     expected |-> expected]

(* With a tag asked for; and with a tag refused, successes left out as      *)
(* subunit-filter does by default, and a list of tests expected to fail.    *)
Setups == {
    Setup({}, {"x"}, {}, {}),
    Setup({"success", "expectedfailure"}, {}, {"x"}, {"known"})}

Changes == {Update({"x"}, {}), Update({"y"}, {"x"})}
=============================================================================
