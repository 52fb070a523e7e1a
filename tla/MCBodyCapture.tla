---------------------------- MODULE MCBodyCapture ----------------------------
(***************************************************************************)
(* BodyCapture with a short and a long plain reply, one whose body         *)
(* mentions HTTP, one after an interim reply, and one that is no HTTP.     *)
(***************************************************************************)
EXTENDS BodyCapture

MCCodes == {100, 200}
Status(code) == <<Half1, Half2, code>>
MCReplies ==
    {Status(200) \o <<Text, Blank, Text>>,
     Status(200) \o <<Blank, Text, Text, Text, Text, Text>>,
     Status(200) \o <<Blank, Text, Half1, Half2, Text>>,
     Status(100) \o <<Blank>> \o Status(200) \o <<Blank, Text>>,
     <<Text, Text>>}
===============================================================================
