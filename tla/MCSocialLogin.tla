--------------------------- MODULE MCSocialLogin ---------------------------
(***************************************************************************)
(* A small instance of SocialLogin: one real address and the made-up one  *)
(* of one external account, two requests at a time.                       *)
(***************************************************************************)
EXTENDS SocialLogin, TLC

CONSTANTS ann, placeholder, ext, p1, p2, s1, s2

MCEmails == {ann, placeholder}
MCPlaceholderOf == ext :> placeholder
MCOneTimeTTL == [kind \in {"verify", "reset", "state", "link"} |->
                    IF kind = "reset" THEN 1 ELSE 2]
MCLockFor == 1 :> 1 @@ 2 :> 2
MCFirstUsers ==
    {(placeholder :> NoVal) @@ (ann :> u) : u \in
        {NoVal, [status |-> "active", pwd |-> p1, fails |-> 0, lock |-> 0]}}
Alike == Permutations({s1, s2})
=============================================================================
