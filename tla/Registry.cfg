\* Three actors over three accounts, one request, two properties, one offer.
CONSTANTS
  t1 = t1
  t2 = t2
  t3 = t3
  anna = anna
  basel = basel
  omar = omar
  pa = pa
  pb = pb
  fa = fa
  fb = fb
  fn = fn
  req = req
  house = house
  villa = villa
  sale = sale
  cn = cn
  cw = cw
  cp = cp
  own = own
  again = again
  bad = bad
  gone = gone
  whole = whole
  brief = brief
  ld = ld
  lo = lo
  ob = ob
  on = on
  f1 = f1
  f2 = f2
  k = k
  surface = surface
  rooms = rooms
  None = None
  Actors = {t1, t2, t3}
  Rows <- MCRows
  Accts <- MCAccts
  Parties = {pa, pb}
  Phones = {fa, fb, fn}
  Requests = {req}
  Properties = {house, villa}
  Offers = {sale}
  PartyOf <- MCPartyOf
  LoginOf <- MCLoginOf
  RequestParty <- MCRequestParty
  CreatorOf <- MCCreatorOf
  OfferOn <- MCOfferOn
  OfferParty <- MCOfferParty
  Consents = {cn, cw, cp}
  Observations = {ob, on}
  Facts = {f1, f2}
  Tasks = {k}
  Attributes = {surface, rooms}
  ConsentParty <- MCConsentParty
  ConsentScope <- MCConsentScope
  Ties = {own, again, bad, gone}
  TieOf <- MCTieOf
  FactOn <- MCFactOn
  Vocabulary <- MCVocabulary
  Levels = {0, 1, 2, 3}
  Opportunities = {whole, brief}
  Leads = {ld, lo}
  OpportunityOn <- MCOpportunityOn
  SummaryOnly = {brief}
  Evaluated <- MCEvaluated
  PublicPrice = {sale}
  Diagnosed = {req}
  Doubled = {villa}
  Starts <- MCStarts
  Documents <- MCDocuments
SYMMETRY Interchangeable
SPECIFICATION Spec
INVARIANTS
  IInv
  DisclosedByRight
PROPERTIES
  AuthorityStands
  RevocationKept
  ResolutionsSucceed
