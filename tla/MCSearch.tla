------------------------------ MODULE MCSearch ------------------------------
(* Two spellings of one artist, an album listed with its song and photo, a   *)
(* section that lists the song again, and a bulk album by the same artist.   *)
EXTENDS Search

CONSTANTS r1, r2, v1, v2

MCRuns == {r1, r2}
OneRun == {r1}
MCVersions == {v1, v2}

MCSorted == <<"AC DC", "AC/DC", "Hurtado", "ZZ">>
MCBase == "AC DC" :> "ac-dc" @@ "AC/DC" :> "ac-dc" @@ "Hurtado" :> "hurtado" @@ "ZZ" :> "zz"

AlbumLine(slug, title, subtitle) ==
    [kind |-> "album", slug |-> slug, title |-> title, subtitle |-> subtitle]
ItemLine(kind, slug, title, subtitle, album, by) ==
    [kind |-> kind, slug |-> slug, title |-> title, subtitle |-> subtitle, album |-> album, by |-> by]

MCLines == [v \in MCVersions |->
    IF v = v1
    THEN <<AlbumLine("powerage", "AC/DC Live", "AC/DC"),
           ItemLine("song", "riff", "Riff Raff", "AC/DC", "powerage", None),
           ItemLine("photo", "cover", "Cover", "Powerage", "powerage", None),
           ItemLine("song", "riff", "Riff Raff", "AC DC", None, None),
           ItemLine("song", "hum", "Hum", "ZZ", None, None)>>
    ELSE <<AlbumLine("powerage", "AC/DC Live", "AC/DC"),
           ItemLine("photo", "cover", "Cover", "Powerage", None, "AC/DC"),
           ItemLine("song", "hum", "Hum", None, "powerage", None),
           ItemLine("song", "riff", "Riff Raff", "AC/DC", None, None)>>]

MCBulkArtists == <<"ZZ", "AC DC">>
MCBulkLines ==
    <<AlbumLine("bulk-album", "Powerage II", "AC DC"),
      ItemLine("song", "bulk-song", "Hum", "AC DC", "bulk-album", None)>>

MCHits == "AC/DC" :> {"AC/DC", "AC DC", "AC/DC Live"}
MCBest == "AC/DC" :> {"AC/DC", "AC DC"}
MCPlain == {"AC DC", "AC/DC", "Hurtado", "ZZ"}

MCPinned == [s \in {"music"} |-> {"hum"}]

\* A search overlaps one run at a time.
Bound == search.pc = "idle" \/ Cardinality({r \in Runs : Running(r)}) <= 1

BoundedSpec == SearchInit /\ [][SearchNext /\ Bound']_searchVars /\ Fairness
=============================================================================
