-------------------------- MODULE MCCatalogRefresh --------------------------
(***************************************************************************)
(* A small instance of CatalogRefresh: one model the catalog and the       *)
(* provider files spell differently and several channels serve, one model  *)
(* nobody contests, and two loop names.                                    *)
(***************************************************************************)
EXTENDS CatalogRefresh

MCIds == {"Kimi", "kimi", "auto"}
MCFolded == [id \in MCIds |-> IF id = "Kimi" THEN "kimi" ELSE id]
MCLevels == {"low", "high"}
MCModalities == {"text"}
MCChannels == {"trae-cn", "workbuddy-cn"}

Facts(context, levels, default) ==
    [context |-> context, maxContext |-> context, modalities |-> {},
     levels |-> levels, default |-> default]
Entry(slug, facts) == [slug |-> slug, facts |-> facts]

Catalog == <<Entry("Kimi", Facts(10, {"low"}, "low")), Entry("auto", Facts(8, {}, NoLevel)),
             Entry(NoId, Facts(9, {}, NoLevel)), Entry("auto", NoFacts)>>
Respelled == <<Entry("kimi", Facts(10, {}, NoLevel))>>
MCTraffic == {Respelled}
NoTraffic == {}

Config(base, key, interval_) == [base |-> base, key |-> key, interval |-> interval_]
MCConfigs == {Config("blank", TRUE, 0), Config("absolute", TRUE, 60),
              Config("blank", FALSE, 60), Config("malformed", TRUE, 60)}
(* One usable endpoint and none.                                          *)
OnAndOff == {Config("absolute", TRUE, 0), Config("malformed", TRUE, 60)}

Answer(kind, body) == [kind |-> kind, body |-> body]
Healthy == {Answer("listing", Catalog)}
Moody == Healthy \cup {Answer("failing", <<>>)}

Model(id, context, tiers, levels) ==
    [id |-> id, context |-> context, tiers |-> tiers, levels |-> levels]
Document(kind, channel, models) ==
    [valid |-> TRUE, kind |-> kind, channel |-> channel, models |-> models]

TwoChannels ==
    <<Document("workbuddy", "workbuddy-cn", <<Model("Kimi", 2, {1, 5}, {"low"})>>),
      Document("workbuddy", "workbuddy-cn", <<Model("kimi", 3, {}, {"high"})>>),
      [Document("qoder", "trae-cn", <<Model("auto", 1, {}, {})>>) EXCEPT !.valid = FALSE],
      Document("trae", "trae-cn", <<Model("auto", 0, {}, {}), Model("kimi", 0, {}, {"low"}),
                                    Model("Kimi", 7, {9}, {"high"}),
                                    Model(NoId, 1, {}, {})>>)>>
OneChannel == SubSeq(TwoChannels, 1, 2)
MCDisks == {TwoChannels, OneChannel}
StableDisk == {TwoChannels}
=============================================================================
