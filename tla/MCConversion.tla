---------------------------- MODULE MCConversion ----------------------------
(* Three records with two blob columns, in batches of up to two; the first    *)
(* record has two URLs to fetch, the second one, the third none.              *)
EXTENDS Conversion

MCColumns == <<"image", "thumbnail">>
MCHttpCells == {<<1, 1>>, <<1, 2>>, <<2, 1>>}
=============================================================================
