------------------------------ MODULE MCUpdates ------------------------------
(* Instances of Updates for TLC.                                           *)
EXTENDS Updates

Msg(id) == [has_correlation_id |-> TRUE, correlation_id |-> id, method |-> "reply"]
\* from_json leaves the id of a message without one at 0
Update(n) == [has_correlation_id |-> FALSE, correlation_id |-> 0,
              method |-> "update", n |-> n]
Poison == [has_correlation_id |-> FALSE, correlation_id |-> 0, method |-> ""]

SomeMessages == {Msg(1), Msg(2), Update(1), Poison}
SomeWants == {[ids |-> <<-1>>, timed |-> FALSE], [ids |-> <<2, 1>>, timed |-> TRUE]}
=============================================================================
