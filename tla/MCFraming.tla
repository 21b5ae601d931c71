----------------------------- MODULE MCFraming -----------------------------
(* The instance of Framing for TLC: two byte values, so that any byte of a      *)
(* payload can be one of a header.                                              *)
EXTENDS Framing

CONSTANTS own, other

(* The handler's own replies: an empty one, one above the sender's limit, one  *)
(* that fits, and in the second script one above the reader's limit.           *)
OwnReplies ==
    { << <<>>, <<1, 0, 1, 1>>, <<1, 0>>, <<1, 1>> >>,
      << <<>>, <<1, 0, 1, 1>>, <<0, 1, 1>>, <<1, 0>> >> }

(* Messages that other handlers deliver. *)
Delivered == << <<0, 1>>, <<1>> >>

MixedScripts ==
    {[s \in Senders |-> IF s = own THEN replies ELSE Delivered] : replies \in OwnReplies}
=============================================================================
