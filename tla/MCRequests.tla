----------------------------- MODULE MCRequests -----------------------------
(* Three entries, none to three of them files, and four schemas: with a vector,
   with integers and lists, with a nested variant, and with a name that occurs
   twice.  Clients send what can and what cannot be converted. *)
EXTENDS Requests

Text   == Column("a", Type(<<>>, "utf8", 0))
Vector == Column("v", Type(<<"fixed_list">>, "float", 24))
Tags   == Column("v", Type(<<"list">>, "large_utf8", 0))
Number == Column("a", Type(<<>>, "int", 0))
Hidden == Column("v", Type(<<"struct">>, "variant", 0))

MCEntries == 1..3
MCSchemas == {<<Text, Vector>>, <<Number, Tags>>, <<Text, Hidden>>, <<Text, Text>>}

Request(source, destination, blobs, indexes) ==
  [by |-> "client", source |-> source, destination |-> destination,
   blobs |-> blobs, indexes |-> indexes]

MCSent ==
  {Request(uri, "path", <<>>, <<>>) : uri \in {"hf", "empty", "gs"}}
    \cup {Request("s3", uri, <<>>, <<>>) : uri \in {"hf", "gs", "empty"}}
    \cup {Request("s3", "path", blobs, <<>>) : blobs \in {<<"a", "a">>, <<"v">>, <<"z">>}}
    \cup {Request("path", "s3", <<>>, indexes) :
            indexes \in {<<Index("z", "text")>>, <<Index("", "text")>>,
                         <<Index("v", "vector"), Index("a", "text")>>,
                         <<Index("v", "text"), Index("v", "text")>>}}
=============================================================================
