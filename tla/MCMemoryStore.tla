---------------------------- MODULE MCMemoryStore ----------------------------
(* MemoryStore with three inputs.  Two of them have no ASCII letter in     *)
(* their first line, so both are left without a slug.                      *)
EXTENDS MemoryStore

CONSTANTS hello, nihao, zaijian

MCSlug == [x \in {hello, nihao, zaijian} |->
             IF x = hello THEN "hello" ELSE ""]
=============================================================================
