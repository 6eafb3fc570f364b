--------------------------- MODULE MCJsonBuilder ---------------------------
(* Small buffers, and documents of up to five calls: large enough for    *)
(* most of them to fit and small enough for every call to meet the end.    *)
EXTENDS JsonBuilder

MCSizes == {2, 3, 5, 8, 10, 11, 12, 13, 14, 15, 16, 17, 18, 19}
MCNames == {<<"n">>}
MCValues == {<<>>, <<"a", ",">>, <<"/">>, <<"c">>}
MCNumbers == {<<"7">>, <<"4", "2">>}
MCChars == {"n", "a", "c", "/", ",", "7", "4", "2"}
MCControl == {"c"}
MCEscaped == {"/"}
=============================================================================
