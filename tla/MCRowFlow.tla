----------------------------- MODULE MCRowFlow ------------------------------
(* A small vocabulary and scaled-down widths for RowFlow. *)
EXTENDS RowFlow, TLC

MCEventTypes == {"view", "add_to_cart", "purchase"}
MCCategories == {"books"}
MCTexts == MCEventTypes \union MCCategories \union
    {"", " ", " Purchase", "refund", "Books ", "e1", "u1", "p1"}

\* trim(lower(_)) on that vocabulary.
MCTrimLower ==
    [t \in MCTexts |-> CASE t = " " -> ""
                         [] t = " Purchase" -> "purchase"
                         [] t = "Books " -> "books"
                         [] OTHER -> t]

\* Every combination of good, missing and odd values, among them a price that
\* rounds to zero, one too wide for its column, and a product of a price and a
\* quantity that each fit but together do not.
MCInputs ==
    [corrupt : {NULL, Garbage},
     event_id : {"", "e1"}, user_id : {NULL, "u1"}, product_id : {"", "p1"},
     category : {NULL, "Books ", "books"},
     event_type : {NULL, "view", "purchase", " Purchase", "refund"},
     event_time : {NULL, 59, Garbage}, generated_at : {60, Garbage},
     price : {NULL, -1, 1000, 8005, 9996},
     quantity : {Garbage, 0, 1, 3, 8}]
=============================================================================
