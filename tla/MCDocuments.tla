---------------------------- MODULE MCDocuments ----------------------------
(* Small documents of each pattern of the corpus; see AknDocument!Init.      *)
EXTENDS AknOutline

CONSTANTS none

Uri(path) == [uri |-> [path |-> path, dated |-> TRUE], this |-> none]
Blank == [uri |-> none, this |-> none]
Tag(tag, parent) == Node(tag, parent, none, Blank, 0)
Named1(tag, parent, num) == Node(tag, parent, [num |-> num, underscore |-> TRUE], Blank, 0)
Act == Node("act", 0, none, Uri(1), 0)

AllTags == {"act", "body", "mainBody", "component", "doc", "chapter", "article", "paragraph", "level",
            "mod", "quotedStructure", "heading", "p", "authorialNote", "foreign", "table", "tr", "th", "td", "ref", "text"}

\* Tags that `below` does not name hold text, those `eids` does not name no eId.
Kind(begin, below, eids, lengths, nodes) ==
    [ begin   |-> begin,
      below   |-> [tag \in AllTags |-> IF tag \in DOMAIN below THEN below[tag] ELSE {"text"}],
      eids    |-> [tag \in AllTags |-> IF tag \in DOMAIN eids THEN eids[tag] ELSE {"none"}],
      lengths |-> lengths,
      nodes   |-> nodes ]

Articles ==
    Kind(<<Act, Tag("body", 1)>>,
         [ body |-> {"chapter", "article"}, chapter |-> {"heading", "article"},
           article |-> {"heading", "paragraph", "p"}, paragraph |-> {"text", "authorialNote"} ],
         [ chapter |-> {"own"}, article |-> {"own"}, paragraph |-> {"own"}, p |-> {"none"} ],
         {0, 2, 3}, 7)

\* The same, with eIds given again.
Twice ==
    Kind(<<Act, Tag("body", 1), Named1("article", 2, 3)>>,
         [ body |-> {"article"}, article |-> {"paragraph"} ],
         [ article |-> {"own", "again"}, paragraph |-> {"own", "again"} ],
         {6}, 7)

Tables ==
    Kind(<<Act, Tag("body", 1), Named1("article", 2, 3), Tag("table", 3),
           Tag("tr", 4), Tag("th", 5), Node("text", 6, none, Blank, 1)>>,
         [ body |-> {}, article |-> {"text", "table"}, table |-> {"tr"} ],
         [tag \in {} |-> {}],
         {1, 4}, 11)

Headless ==
    Kind(<<Act, Tag("body", 1), Tag("article", 2), Tag("table", 3)>>,
         [ body |-> {}, article |-> {"table"}, table |-> {"tr", "text"} ],
         [tag \in {} |-> {}],
         {1, 4}, 9)

Levels ==
    Kind(<<Act, Tag("body", 1)>>,
         [ body |-> {"level", "p"}, level |-> {"level", "p"} ],
         [ level |-> {"own", "none"} ],
         {2}, 7)

Mods ==
    Kind(<<Act, Tag("body", 1)>>,
         [ body |-> {"mod"}, mod |-> {"quotedStructure", "text"}, quotedStructure |-> {"paragraph", "article"} ],
         [ mod |-> {"own"}, paragraph |-> {"own", "none"}, article |-> {"own"} ],
         {2, 4}, 8)

Prose ==
    Kind(<<Act, Tag("body", 1)>>,
         [ body |-> {"p"}, p |-> {"text", "authorialNote", "foreign"}, authorialNote |-> {"p", "text"} ],
         [ p |-> {"own"} ],
         {1, 3}, 8)

References ==
    Kind(<<Act, Tag("body", 1), Named1("article", 2, 3)>>,
         [ body |-> {"article", "mod"}, mod |-> {"quotedStructure"}, quotedStructure |-> {"article", "table"},
           article |-> {"paragraph", "ref"}, paragraph |-> {"ref", "authorialNote", "table"},
           authorialNote |-> {"ref"}, table |-> {"tr"}, tr |-> {"td"} ],
         [ article |-> {"own"}, paragraph |-> {"own", "none"}, mod |-> {"own"} ],
         {2}, 7)

RowsOfCells ==
    Kind(<<Act, Tag("body", 1), Named1("article", 2, 3), Tag("table", 3),
           Tag("tr", 4), Tag("th", 5), Node("text", 6, none, Blank, 1)>>,
         [ body |-> {}, article |-> {}, table |-> {"tr"}, tr |-> {"td"}, td |-> {"text", "table"} ],
         [tag \in {} |-> {}],
         {3}, 13)

Components ==
    Kind(<<Act, Tag("component", 1), Node("doc", 2, none, Uri(3), 0), Tag("mainBody", 3),
           Tag("article", 4), Node("text", 5, none, Blank, 2)>>,
         [ act |-> {"component"}, component |-> {"doc"}, doc |-> {"mainBody"}, mainBody |-> {"article"} ],
         [ article |-> {"own"} ],
         {1, 2}, 11)

SomeCorpora == {Articles, Twice, Tables, Headless, Levels, Mods, Prose, References, RowsOfCells,
               Components}
=============================================================================
