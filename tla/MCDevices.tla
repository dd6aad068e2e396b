------------------------------ MODULE MCDevices ------------------------------
(* Lines, monitors and ranges that lead to the cases of the code.             *)
EXTENDS Devices

Ok(cr) == [colon |-> FALSE, name |-> "HTTP/1.1 200 OK", value |-> "", cr |-> cr]
Header(name, value) == [colon |-> TRUE, name |-> name, value |-> value, cr |-> 1]
Junk == [colon |-> FALSE, name |-> "junk", value |-> "", cr |-> 1]
Blank == [colon |-> FALSE, name |-> "", value |-> "", cr |-> 1]

MCDatagrams == {
    <<Ok(1), Header("ST", " denon"), Header("USN", "1"), Blank>>,
    <<Ok(0), Header("usn", "1"), Junk, Header("St", "denon")>>,
    <<Ok(1), Header("st", "denon"), Header("ST", "other"), Header("USN", "2")>>,
    <<Ok(1), Header("USN", "denon"), Header("usn", "2")>>,
    <<Ok(2), Header("ST", "denon")>>,
    <<Blank>>}
MCLowerCase == [ST |-> "st", St |-> "st", st |-> "st", USN |-> "usn", usn |-> "usn"]
MCTrimmed == [v \in {"denon", "other", "1", "2"} |-> v] @@ (" denon" :> "denon")

Dell(id) == [text |-> "dell", id |-> id]
Adapter(name, monitors) == [name |-> name, mirroring |-> FALSE, monitors |-> monitors]
Display(device, physical) == [device |-> device, physical |-> physical]
MCTopologies == {
    [adapters |-> <<Adapter("1", <<Dell("a"), Dell("b")>>)>>,
     displays |-> <<Display("1", <<Dell("a"), Dell("b")>>)>>],
    [adapters |-> <<Adapter("1", <<Dell("b")>>),
                    [name |-> "m", mirroring |-> TRUE, monitors |-> <<Dell("m")>>],
                    Adapter("2", <<[text |-> "lg", id |-> "c"]>>)>>,
     displays |-> <<Display("2", <<[text |-> "lg", id |-> "c"]>>), Display("1", <<Dell("b")>>)>>],
    [adapters |-> <<Adapter("1", <<Dell("malformed")>>)>>,
     displays |-> <<Display("1", <<Dell("malformed")>>), Display("3", <<>>)>>]}

MCRanges == {[min |-> 0, max |-> 100], [min |-> 10, max |-> 60], [min |-> 0, max |-> 0]}
MCCurrents == {0, 10, 53, 59}
MCOtherValues == {NaN, [num |-> 3, den |-> 2], [num |-> 0 - 1, den |-> 2], [num |-> 1, den |-> 50]}
=============================================================================
