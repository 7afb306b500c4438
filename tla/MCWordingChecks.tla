-------------------------- MODULE MCWordingChecks --------------------------
(* WordingChecks for two criteria, three parameters and all wordings of up *)
(* to three numbers.                                                       *)
EXTENDS WordingChecks

MCCriteria == {"clarity", "consistency"}

MCParams == [nums |-> 2500, images_count |-> 500, channels |-> 2,
             alphabet_size |-> 80, max_serial_length |-> 50]

(* "" and a phrase that says nothing, and two others around the length     *)
(* from which a message counts.                                            *)
Messages == { [filler |-> TRUE, length |-> 0], [filler |-> TRUE, length |-> 12],
              [filler |-> FALSE, length |-> 7], [filler |-> FALSE, length |-> 8] }

Fields == [pass : {"true", "false", "other", "absent"}, message : Messages]

Absent == [pass |-> "absent", message |-> [filler |-> TRUE, length |-> 0]]
Approved == [pass |-> "true", message |-> [filler |-> FALSE, length |-> 8]]
Refused == [pass |-> "false", message |-> [filler |-> FALSE, length |-> 8]]

Object(clarity, consistency, nested) ==
    [kind |-> "object", nested |-> nested,
     fields |-> [c \in MCCriteria |-> IF c = "clarity" THEN clarity ELSE consistency]]

Scalar == [kind |-> "value"]

Inner == { Object(f, g, <<>>) : f, g \in {Absent, Approved, Refused} } \cup {Scalar}

Bodies ==
    { Object(f, g, <<>>) : f, g \in Fields }
        \cup { Object(f, Absent, nested) : f \in {Absent, Approved},
                   nested \in {<<v>> : v \in Inner} \cup (Inner \X Inner) }
        \cup {Scalar, [kind |-> "broken"]}

MCTexts ==
    [shape : {"bare", "prose", "fence", "open_fence", "json_fence", "open_json_fence"},
     body : Bodies]

(* 2, 500, 2500, 000 and 50, near the number before or apart from it.      *)
Runs == { [value |-> v, width |-> w, near |-> near] :
            <<v, w>> \in {<<2, 1>>, <<500, 3>>, <<2500, 4>>, <<0, 3>>, <<50, 2>>},
            near \in BOOLEAN }

MCWordings == { w \in UNION { [1..n -> Runs] : n \in 0..3 } : w # <<>> => ~w[1].near }
=============================================================================
