------------------------------- MODULE Panels -------------------------------
(***************************************************************************)
(* The canned panels (src/lib/aeo/panels/*.ts): of each question its       *)
(* category, in the order of the file.  A panel's questions stand in       *)
(* blocks of one category.  The first is the panel's only {service}        *)
(* template; its twins are the positions of the panel's own questions it   *)
(* can turn into, when the service a visitor typed says the same.  Every   *)
(* other slot is filled from the state and city, which the form requires.  *)
(***************************************************************************)
EXTENDS Naturals, Sequences, SequencesExt

hddTrenchless ==
  [blocks |-> <<<<"service-geo", 14>>, <<"cost", 12>>, <<"comparison", 9>>,
              <<"technical", 18>>, <<"permits", 11>>, <<"application", 14>>,
              <<"vendor-selection", 9>>, <<"problem", 8>>, <<"buyer-role", 9>>>>,
   twins |-> {3, 5, 8, 9, 10, 70, 102}]

commercialRoofing ==
  [blocks |-> <<<<"service-geo", 11>>, <<"cost", 9>>, <<"permits", 6>>,
              <<"comparison", 7>>, <<"technical", 9>>, <<"application", 5>>,
              <<"vendor-selection", 7>>, <<"problem", 6>>, <<"buyer-role", 5>>>>,
   twins |-> {11}]

electricalContracting ==
  [blocks |-> <<<<"service-geo", 11>>, <<"cost", 9>>, <<"permits", 6>>,
              <<"comparison", 7>>, <<"technical", 8>>, <<"application", 6>>,
              <<"vendor-selection", 6>>, <<"problem", 7>>, <<"buyer-role", 5>>>>,
   twins |-> {2, 5, 8}]

hvacPlumbing ==
  [blocks |-> <<<<"service-geo", 12>>, <<"cost", 10>>, <<"permits", 6>>,
              <<"comparison", 7>>, <<"technical", 8>>, <<"application", 5>>,
              <<"vendor-selection", 6>>, <<"problem", 8>>, <<"buyer-role", 5>>>>,
   twins |-> {2, 5, 9}]

landscaping ==
  [blocks |-> <<<<"service-geo", 12>>, <<"cost", 10>>, <<"permits", 6>>,
              <<"comparison", 6>>, <<"technical", 8>>, <<"application", 6>>,
              <<"vendor-selection", 6>>, <<"problem", 6>>, <<"buyer-role", 5>>>>,
   twins |-> {2, 5, 7, 10}]

municipalAdvisors ==
  [blocks |-> <<<<"service-geo", 14>>, <<"cost", 8>>, <<"regulation", 10>>,
              <<"comparison", 8>>, <<"technical", 10>>, <<"application", 12>>,
              <<"vendor-selection", 9>>, <<"problem", 7>>, <<"buyer-role", 9>>>>,
   twins |-> {}]

poolsHotTubs ==
  [blocks |-> <<<<"service-geo", 12>>, <<"cost", 10>>, <<"permits", 7>>,
              <<"comparison", 7>>, <<"technical", 10>>, <<"application", 6>>,
              <<"vendor-selection", 7>>, <<"problem", 7>>, <<"buyer-role", 4>>>>,
   twins |-> {2, 5, 7, 11}]

residentialRoofing ==
  [blocks |-> <<<<"service-geo", 11>>, <<"cost", 9>>, <<"permits", 6>>,
              <<"comparison", 7>>, <<"technical", 9>>, <<"application", 5>>,
              <<"problem", 6>>, <<"vendor-selection", 7>>, <<"buyer-role", 4>>>>,
   twins |-> {2, 5, 10}]

siding ==
  [blocks |-> <<<<"service-geo", 10>>, <<"cost", 8>>, <<"permits", 6>>,
              <<"comparison", 7>>, <<"technical", 8>>, <<"application", 5>>,
              <<"problem", 6>>, <<"vendor-selection", 6>>, <<"buyer-role", 4>>>>,
   twins |-> {2, 5, 10}]

windowsDoors ==
  [blocks |-> <<<<"service-geo", 10>>, <<"cost", 9>>, <<"permits", 6>>,
              <<"comparison", 7>>, <<"technical", 8>>, <<"application", 5>>,
              <<"problem", 6>>, <<"vendor-selection", 6>>, <<"buyer-role", 4>>>>,
   twins |-> {2, 5, 10}]

solarInstallers ==
  [blocks |-> <<<<"service-geo", 10>>, <<"cost", 9>>, <<"permits", 6>>,
              <<"comparison", 7>>, <<"technical", 8>>, <<"application", 5>>,
              <<"problem", 6>>, <<"vendor-selection", 6>>, <<"buyer-role", 4>>>>,
   twins |-> {2, 7}]

generalContractors ==
  [blocks |-> <<<<"service-geo", 10>>, <<"cost", 9>>, <<"permits", 7>>,
              <<"comparison", 6>>, <<"technical", 8>>, <<"application", 5>>,
              <<"problem", 6>>, <<"vendor-selection", 7>>, <<"buyer-role", 5>>>>,
   twins |-> {2, 5, 10}]

kitchenRemodeling ==
  [blocks |-> <<<<"service-geo", 10>>, <<"cost", 9>>, <<"permits", 6>>,
              <<"comparison", 7>>, <<"technical", 8>>, <<"application", 5>>,
              <<"problem", 6>>, <<"vendor-selection", 6>>, <<"buyer-role", 4>>>>,
   twins |-> {2, 6, 8}]

bathroomRemodeling ==
  [blocks |-> <<<<"service-geo", 10>>, <<"cost", 9>>, <<"permits", 6>>,
              <<"comparison", 7>>, <<"technical", 8>>, <<"application", 5>>,
              <<"problem", 6>>, <<"vendor-selection", 6>>, <<"buyer-role", 4>>>>,
   twins |-> {2, 5, 8}]

basementWaterproofing ==
  [blocks |-> <<<<"service-geo", 10>>, <<"cost", 8>>, <<"permits", 6>>,
              <<"comparison", 7>>, <<"technical", 8>>, <<"application", 5>>,
              <<"problem", 6>>, <<"vendor-selection", 6>>, <<"buyer-role", 4>>>>,
   twins |-> {2, 5, 9}]

treeServices ==
  [blocks |-> <<<<"service-geo", 10>>, <<"cost", 8>>, <<"permits", 6>>,
              <<"comparison", 6>>, <<"technical", 8>>, <<"application", 6>>,
              <<"problem", 6>>, <<"vendor-selection", 6>>, <<"buyer-role", 4>>>>,
   twins |-> {2, 4, 7}]

excavationSiteWork ==
  [blocks |-> <<<<"service-geo", 10>>, <<"cost", 9>>, <<"permits", 7>>,
              <<"comparison", 6>>, <<"technical", 8>>, <<"application", 6>>,
              <<"problem", 5>>, <<"vendor-selection", 5>>, <<"buyer-role", 5>>>>,
   twins |-> {2, 5}]

pestControl ==
  [blocks |-> <<<<"service-geo", 10>>, <<"cost", 8>>, <<"permits", 6>>,
              <<"comparison", 6>>, <<"technical", 8>>, <<"application", 6>>,
              <<"problem", 6>>, <<"vendor-selection", 6>>, <<"buyer-role", 4>>>>,
   twins |-> {2, 5, 8}]

fireProtection ==
  [blocks |-> <<<<"service-geo", 10>>, <<"cost", 8>>, <<"permits", 7>>,
              <<"comparison", 6>>, <<"technical", 8>>, <<"application", 5>>,
              <<"problem", 6>>, <<"vendor-selection", 5>>, <<"buyer-role", 5>>>>,
   twins |-> {2, 5, 7}]

commercialCleaning ==
  [blocks |-> <<<<"service-geo", 10>>, <<"cost", 8>>, <<"permits", 6>>,
              <<"comparison", 6>>, <<"technical", 8>>, <<"application", 5>>,
              <<"problem", 6>>, <<"vendor-selection", 6>>, <<"buyer-role", 5>>>>,
   twins |-> {2, 5}]

movingCompanies ==
  [blocks |-> <<<<"service-geo", 10>>, <<"cost", 9>>, <<"permits", 6>>,
              <<"comparison", 6>>, <<"technical", 8>>, <<"application", 5>>,
              <<"problem", 6>>, <<"vendor-selection", 6>>, <<"buyer-role", 4>>>>,
   twins |-> {2, 6, 10}]

collisionRepair ==
  [blocks |-> <<<<"service-geo", 10>>, <<"cost", 8>>, <<"permits", 6>>,
              <<"comparison", 6>>, <<"technical", 8>>, <<"application", 6>>,
              <<"problem", 6>>, <<"vendor-selection", 6>>, <<"buyer-role", 4>>>>,
   twins |-> {2, 7, 9}]

marineServices ==
  [blocks |-> <<<<"service-geo", 10>>, <<"cost", 9>>, <<"permits", 6>>,
              <<"comparison", 6>>, <<"technical", 8>>, <<"application", 5>>,
              <<"problem", 6>>, <<"vendor-selection", 6>>, <<"buyer-role", 4>>>>,
   twins |-> {2, 4, 6, 10, 58}]

financialAdvisors ==
  [blocks |-> <<<<"service-geo", 10>>, <<"cost", 8>>, <<"regulation", 7>>,
              <<"comparison", 6>>, <<"technical", 8>>, <<"application", 6>>,
              <<"problem", 5>>, <<"vendor-selection", 6>>, <<"buyer-role", 4>>>>,
   twins |-> {2, 5}]

itMsp ==
  [blocks |-> <<<<"service-geo", 10>>, <<"cost", 8>>, <<"regulation", 6>>,
              <<"comparison", 6>>, <<"technical", 8>>, <<"application", 6>>,
              <<"problem", 6>>, <<"vendor-selection", 6>>, <<"buyer-role", 4>>>>,
   twins |-> {2, 7}]

dentists ==
  [blocks |-> <<<<"service-geo", 10>>, <<"cost", 9>>, <<"regulation", 6>>,
              <<"comparison", 6>>, <<"technical", 8>>, <<"application", 5>>,
              <<"problem", 6>>, <<"vendor-selection", 6>>, <<"buyer-role", 4>>>>,
   twins |-> {2, 4, 6}]

homeHealthcare ==
  [blocks |-> <<<<"service-geo", 10>>, <<"cost", 8>>, <<"regulation", 6>>,
              <<"comparison", 6>>, <<"technical", 8>>, <<"application", 6>>,
              <<"problem", 6>>, <<"vendor-selection", 6>>, <<"buyer-role", 4>>>>,
   twins |-> {2, 4, 10}]

religiousArt ==
  [blocks |-> <<<<"service-geo", 6>>, <<"cost", 10>>, <<"regulation", 4>>,
              <<"comparison", 8>>, <<"technical", 10>>, <<"application", 8>>,
              <<"problem", 6>>, <<"vendor-selection", 8>>, <<"buyer-role", 6>>>>,
   twins |-> {3}]

aiVisibility ==
  [blocks |-> <<<<"service-geo", 4>>, <<"cost", 6>>, <<"comparison", 8>>,
              <<"technical", 10>>, <<"application", 6>>, <<"problem", 6>>,
              <<"vendor-selection", 6>>, <<"buyer-role", 5>>>>,
   twins |-> {2}]

webDesign ==
  [blocks |-> <<<<"service-geo", 7>>, <<"cost", 8>>, <<"regulation", 4>>,
              <<"comparison", 7>>, <<"technical", 8>>, <<"application", 6>>,
              <<"problem", 6>>, <<"vendor-selection", 5>>, <<"buyer-role", 5>>>>,
   twins |-> {2, 5}]

CannedPanels == <<
  hddTrenchless, commercialRoofing, electricalContracting, hvacPlumbing,
  landscaping, municipalAdvisors, poolsHotTubs, residentialRoofing, siding,
  windowsDoors, solarInstallers, generalContractors, kitchenRemodeling,
  bathroomRemodeling, basementWaterproofing, treeServices,
  excavationSiteWork, pestControl, fireProtection, commercialCleaning,
  movingCompanies, collisionRepair, marineServices, financialAdvisors, itMsp,
  dentists, homeHealthcare, religiousArt, aiVisibility, webDesign>>

PanelNumbers == DOMAIN CannedPanels

QuestionCategories ==
  [p \in PanelNumbers |->
     FlattenSeq([b \in DOMAIN CannedPanels[p].blocks |->
       [i \in 1..CannedPanels[p].blocks[b][2] |-> CannedPanels[p].blocks[b][1]]])]

\* The categories, sorted.
SortedCategories ==
  <<"application", "buyer-role", "comparison", "cost", "permits", "problem", "regulation",
    "service-geo", "technical", "vendor-selection">>

ServiceTwins == [p \in PanelNumbers |-> CannedPanels[p].twins]
=============================================================================
