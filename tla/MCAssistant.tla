---------------------------- MODULE MCAssistant ----------------------------
(* Assistant with three inputs.  Two of them have no ASCII letter in their *)
(* first line, so both are left without a slug.                            *)
EXTENDS Assistant

CONSTANTS hello, nihao, zaijian

MCSlug == [x \in Inputs |->
            IF x = hello THEN "hello" ELSE ""]
=============================================================================
