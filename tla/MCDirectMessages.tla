-------------------------- MODULE MCDirectMessages ----------------------------
(* Direct messages on a small instance; see DirectMessages.cfg. *)
EXTENDS DirectMessages, TLC

MCFrom == "there" :> "ann" @@ "back" :> "bob" @@ "self" :> "ann"
MCTo   == "there" :> "bob" @@ "back" :> "ann" @@ "self" :> "ann"
=============================================================================
